---------------------------- MODULE Spec2Model ----------------------------
(***************************************************************************)
(* Momentum Shift: the server-side momentum algorithm                      *)
(* (momentum-shift/server/momentumAlgorithm.js), followed by the dashboard *)
(* components that consume its trace: GameDNA, the run predictor of        *)
(* MomentumChart, the narrative engine with its time-window variant, and   *)
(* the polling of the active game by App, each under its own specification *)
(* (SpecDNA, SpecChart, SpecNarrative, SpecWindow, SpecApp).               *)
(*                                                                         *)
(* The file declares calculatePlayImpact, calculateTimeDecay and           *)
(* calculateMomentumSeries twice.  Function declarations are hoisted and   *)
(* the later declaration of a name replaces the earlier one, so the        *)
(* functions that run (and that module.exports hands out) are the ones at  *)
(* lines 163-319.  The model follows those; the earlier series builder     *)
(* (lines 81-150) only appears as the wall-clock decay policy.             *)
(*                                                                         *)
(* Representation.                                                         *)
(*   - A JavaScript string is a sequence of one-character strings, so that *)
(*     toLowerCase and includes are computed, not assumed.                 *)
(*   - Numbers are exact.  Momentum is held in thousandths of a point;     *)
(*     a decay multiplier is held in thousandths; a rescaled momentum is   *)
(*     a reduced fraction [num, den] of thousandths.  All values the fold  *)
(*     produces are multiples of 0.05, so the double arithmetic of the     *)
(*     source is exact up to an error far below the 0.005 that toFixed(2)  *)
(*     could see.                                                          *)
(*   - wallclock is a count of 30-second ticks (0 = the field is absent);  *)
(*     new Date(wallclock).getTime() is 30000 ms per tick, NaN if absent.  *)
(*   - The display-only fields copied into a sample (sequenceNumber,       *)
(*     clock, period, homeScore, awayScore) are not modelled.              *)
(***************************************************************************)
EXTENDS Integers, Sequences, FiniteSets, TLC

VARIABLES
    engine,           \* which Array.prototype.sort the host runs (fixed per run)
    plays,            \* the caller's play list (argument plays), or absent
    playsDefined,     \* FALSE when the argument plays is null/undefined
    homeTeamId,       \* argument homeTeamId
    awayTeamId,       \* argument awayTeamId
    pc,               \* "idle" | "loop" | "done": position inside the call
    sortedPlays,      \* local sortedPlays
    i,                \* loop index (0-based, as in the source)
    currentMomentum,  \* local currentMomentum, thousandths
    rawImpact,        \* local rawImpact of the last folded play
    decayMultiplier,  \* local decayMultiplier of the last folded play, thousandths
    history,          \* local history: the trace being built, then returned
    prev,             \* an earlier completed call: its arguments and its trace
    momentumData,     \* dashboard state momentumData: the trace last received
    momentumDefined,  \* FALSE when the trace handed over is null/undefined
    selectedTimeWindow, \* dashboard state selectedTimeWindow, or NoWindow (null)
    homeTeam,         \* dashboard state homeTeam, or NoTeamInfo (null)
    awayTeam,         \* dashboard state awayTeam, or NoTeamInfo (null)
    period,           \* dashboard state period
    clock,            \* dashboard state clock, a string
    dna,              \* GameDNA: dependencies, input and vector of its last effect run
    chart,            \* MomentumChart: its interval timer and the requests it has sent
    narrative,        \* the value generateGameNarrative last returned
    app               \* App: active game, loading, error, poll timers, requests in flight

serverVars == <<engine, plays, playsDefined, homeTeamId, awayTeamId, pc, sortedPlays,
                i, currentMomentum, rawImpact, decayMultiplier, history, prev>>

clientVars == <<momentumData, momentumDefined, selectedTimeWindow, homeTeam, awayTeam, period, clock,
                dna, chart, narrative, app>>

vars == <<serverVars, clientVars>>

-----------------------------------------------------------------------------
(* Program constants *)

momentumMax == 100
decayWindow == 10
maxWindowMinutes == 5

-----------------------------------------------------------------------------
(* Model bounds *)

\* longest play list of the general family
MaxLen == 2
\* longest play list of the long-game family (26 is where the decay floor starts)
MaxLong == 27
\* largest scoreValue of the scorer family
MaxScoreValue == 3

-----------------------------------------------------------------------------
(* Numbers *)

Max(a, b) == IF a >= b THEN a ELSE b
Min(a, b) == IF a <= b THEN a ELSE b
Abs(a) == IF a < 0 THEN -a ELSE a

RECURSIVE GCD(_, _)
GCD(a, b) == IF b = 0 THEN a ELSE GCD(b, a % b)

\* a fraction num/den of thousandths, den > 0, in lowest terms
Rat(n, d) ==
    LET g == GCD(Abs(n), d)
    IN  IF n = 0 THEN [num |-> 0, den |-> 1] ELSE [num |-> n \div g, den |-> d \div g]

RatLess(a, b) == a.num * b.den < b.num * a.den
RatSign(a) == IF a.num > 0 THEN 1 ELSE IF a.num < 0 THEN -1 ELSE 0

-----------------------------------------------------------------------------
(* Strings *)

UpperChars == <<"A", "B", "C", "D", "E", "F", "G", "H", "I", "J", "K", "L", "M",
                "N", "O", "P", "Q", "R", "S", "T", "U", "V", "W", "X", "Y", "Z">>
LowerChars == <<"a", "b", "c", "d", "e", "f", "g", "h", "i", "j", "k", "l", "m",
                "n", "o", "p", "q", "r", "s", "t", "u", "v", "w", "x", "y", "z">>

LowerChar(c) ==
    IF \E k \in DOMAIN UpperChars : UpperChars[k] = c
    THEN LowerChars[CHOOSE k \in DOMAIN UpperChars : UpperChars[k] = c]
    ELSE c

\* String.prototype.toLowerCase
RECURSIVE ToLowerCase(_)
ToLowerCase(s) ==
    IF s = <<>> THEN <<>> ELSE <<LowerChar(s[1])>> \o ToLowerCase(Tail(s))

\* String.prototype.includes
Includes(s, pat) ==
    \E k \in 0 .. (Len(s) - Len(pat)) : SubSeq(s, k + 1, k + Len(pat)) = pat

(* Substrings the scorer looks for, and play texts *)

PatTurnover == <<"t", "u", "r", "n", "o", "v", "e", "r">>
PatFastBreak == <<"f", "a", "s", "t", " ", "b", "r", "e", "a", "k">>
PatDunk == <<"d", "u", "n", "k">>
PatAlleyOopSpace == <<"a", "l", "l", "e", "y", " ", "o", "o", "p">>
PatAlleyOopHyphen == <<"a", "l", "l", "e", "y", "-", "o", "o", "p">>
PatAnd1Space == <<"a", "n", "d", " ", "1">>
PatAnd1Hyphen == <<"a", "n", "d", "-", "1">>
PatFoul == <<"f", "o", "u", "l">>
PatBlock == <<"b", "l", "o", "c", "k">>
PatSteal == <<"s", "t", "e", "a", "l">>

\* "three point jumper"
TxtThreePointJumper == <<"t", "h", "r", "e", "e", " ", "p", "o", "i", "n", "t", " ", "j", "u", "m", "p", "e", "r">>
\* "turnover bad pass"
TxtTurnoverBadPass == <<"t", "u", "r", "n", "o", "v", "e", "r", " ", "b", "a", "d", " ", "p", "a", "s", "s">>
\* "fast break dunk"
TxtFastBreakDunk == <<"f", "a", "s", "t", " ", "b", "r", "e", "a", "k", " ", "d", "u", "n", "k">>
\* "Fast Break DUNK"
TxtFastBreakDunkCaps == <<"F", "a", "s", "t", " ", "B", "r", "e", "a", "k", " ", "D", "U", "N", "K">>
\* "Alley-Oop layup"
TxtAlleyOopLayup == <<"A", "l", "l", "e", "y", "-", "O", "o", "p", " ", "l", "a", "y", "u", "p">>
\* "alley oop finish"
TxtAlleyOopSpaced == <<"a", "l", "l", "e", "y", " ", "o", "o", "p", " ", "f", "i", "n", "i", "s", "h">>
\* "layup and-1"
TxtLayupAnd1 == <<"l", "a", "y", "u", "p", " ", "a", "n", "d", "-", "1">>
\* "layup and 1"
TxtLayupAndOneSpaced == <<"l", "a", "y", "u", "p", " ", "a", "n", "d", " ", "1">>
\* "layup, foul drawn"
TxtLayupFoul == <<"l", "a", "y", "u", "p", ",", " ", "f", "o", "u", "l", " ", "d", "r", "a", "w", "n">>
\* "blocks shot"
TxtBlocksShot == <<"b", "l", "o", "c", "k", "s", " ", "s", "h", "o", "t">>
\* "Bad Pass (steals)"
TxtBadPassSteal == <<"B", "a", "d", " ", "P", "a", "s", "s", " ", "(", "s", "t", "e", "a", "l", "s", ")">>
\* "rebound"
TxtRebound == <<"r", "e", "b", "o", "u", "n", "d">>
\* "dunk off steal"
TxtDunkOffSteal == <<"d", "u", "n", "k", " ", "o", "f", "f", " ", "s", "t", "e", "a", "l">>
\* "turnover"
TxtTypeTurnover == <<"t", "u", "r", "n", "o", "v", "e", "r">>
\* "Bad Pass Turnover"
TxtTypeBadPassTurnover == <<"B", "a", "d", " ", "P", "a", "s", "s", " ", "T", "u", "r", "n", "o", "v", "e", "r">>
\* "Dunk Shot"
TxtTypeDunkShot == <<"D", "u", "n", "k", " ", "S", "h", "o", "t">>
\* "Jump Shot"
TxtTypeJumpShot == <<"J", "u", "m", "p", " ", "S", "h", "o", "t">>
\* "Block Shot"
TxtTypeBlockShot == <<"B", "l", "o", "c", "k", " ", "S", "h", "o", "t">>
\* "Fast Break Layup"
TxtTypeFastBreakLayup == <<"F", "a", "s", "t", " ", "B", "r", "e", "a", "k", " ", "L", "a", "y", "u", "p">>
\* "Steal"
TxtTypeSteal == <<"S", "t", "e", "a", "l">>

-----------------------------------------------------------------------------
(* calculatePlayImpact *)

\* play.type.text: undefined unless play.type is an object carrying a text
\* (a play whose type is a bare string has no .text property)
TypeTextOf(type) == IF type.kind = "object" THEN type.text ELSE <<>>

\* the scorer with the rules chained by else-if: the first matching rule only
CalculatePlayImpact_FirstRuleOnly(play) ==
    IF play.text = <<>> \/ play.type.kind = "undefined" THEN 0
    ELSE LET text == ToLowerCase(play.text)
             typeText == ToLowerCase(TypeTextOf(play.type))
         IN  IF play.scoringPlay THEN play.scoreValue * 2
             ELSE IF Includes(typeText, PatTurnover) \/ Includes(text, PatTurnover) THEN -5
             ELSE IF Includes(typeText, PatFastBreak) \/ Includes(text, PatFastBreak) THEN 3
             ELSE IF Includes(typeText, PatDunk) \/ Includes(text, PatDunk)
                     \/ Includes(text, PatAlleyOopSpace) \/ Includes(text, PatAlleyOopHyphen) THEN 2
             ELSE IF Includes(text, PatAnd1Space) \/ Includes(text, PatAnd1Hyphen) THEN 2
             ELSE IF Includes(typeText, PatBlock) \/ Includes(text, PatBlock) THEN 4
             ELSE IF Includes(typeText, PatSteal) \/ Includes(text, PatSteal) THEN 4
             ELSE 0

\* the scorer without the guard on a missing type
CalculatePlayImpact_NoTypeGuard(play) ==
    IF play.text = <<>> THEN 0
    ELSE LET text == ToLowerCase(play.text)
             typeText == ToLowerCase(TypeTextOf(play.type))
         IN  (IF play.scoringPlay THEN play.scoreValue * 2 ELSE 0)
             + (IF Includes(typeText, PatTurnover) \/ Includes(text, PatTurnover) THEN -5 ELSE 0)
             + (IF Includes(typeText, PatFastBreak) \/ Includes(text, PatFastBreak) THEN 3 ELSE 0)
             + (IF Includes(typeText, PatDunk) \/ Includes(text, PatDunk)
                   \/ Includes(text, PatAlleyOopSpace) \/ Includes(text, PatAlleyOopHyphen)
                THEN 2 ELSE 0)
             + (IF Includes(text, PatAnd1Space) \/ Includes(text, PatAnd1Hyphen)
                   \/ (play.scoringPlay /\ play.scoreValue > 0 /\ Includes(text, PatFoul))
                THEN 2 ELSE 0)
             + (IF Includes(typeText, PatBlock) \/ Includes(text, PatBlock) THEN 4 ELSE 0)
             + (IF Includes(typeText, PatSteal) \/ Includes(text, PatSteal) THEN 4 ELSE 0)

\* function calculatePlayImpact(play).  text = <<>> stands for a missing or
\* empty text (both falsy); scoreValue 0 for a missing one ((scoreValue || 0)).
CalculatePlayImpact(play) ==
    IF play.text = <<>> \/ play.type.kind = "undefined" THEN 0
    ELSE LET text == ToLowerCase(play.text)
             typeText == ToLowerCase(TypeTextOf(play.type))
         IN  \* 1. base score
             (IF play.scoringPlay THEN play.scoreValue * 2 ELSE 0)
             \* 2. modifiers
             + (IF Includes(typeText, PatTurnover) \/ Includes(text, PatTurnover) THEN -5 ELSE 0)
             + (IF Includes(typeText, PatFastBreak) \/ Includes(text, PatFastBreak) THEN 3 ELSE 0)
             + (IF Includes(typeText, PatDunk) \/ Includes(text, PatDunk)
                   \/ Includes(text, PatAlleyOopSpace) \/ Includes(text, PatAlleyOopHyphen)
                THEN 2 ELSE 0)
             + (IF Includes(text, PatAnd1Space) \/ Includes(text, PatAnd1Hyphen)
                   \/ (play.scoringPlay /\ play.scoreValue > 0 /\ Includes(text, PatFoul))
                THEN 2 ELSE 0)
             + (IF Includes(typeText, PatBlock) \/ Includes(text, PatBlock) THEN 4 ELSE 0)
             + (IF Includes(typeText, PatSteal) \/ Includes(text, PatSteal) THEN 4 ELSE 0)

-----------------------------------------------------------------------------
(* calculateTimeDecay: the wall-clock policy (thousandths) *)

\* new Date(wallclock).getTime(), for a present wallclock
GetTime(wallclock) == wallclock * 30000

\* function calculateTimeDecay(playTime, currentTime, maxWindowMinutes)
\* diffMinutes >= max is diffMs >= max * 60000; 1 - diffMinutes / max in
\* thousandths is 1000 - diffMs / (max * 60), exact for 30-second ticks.
CalculateTimeDecay(playTime, currentTime, maxWindow) ==
    LET diffMs == currentTime - playTime
    IN  IF diffMs >= maxWindow * 60000 \/ diffMs < 0 THEN 0
        ELSE 1000 - (diffMs \div (maxWindow * 60))

-----------------------------------------------------------------------------
(* Array.prototype.sort with the comparator of lines 251-253 *)

\* (a, b) => new Date(a.wallclock).getTime() - new Date(b.wallclock).getTime();
\* an absent wallclock gives NaN, which sort reads as +0
Compare(a, b) ==
    IF a.wallclock = 0 \/ b.wallclock = 0 THEN 0
    ELSE GetTime(a.wallclock) - GetTime(b.wallclock)

Front(s) == SubSeq(s, 1, Len(s) - 1)
Last(s) == s[Len(s)]

RECURSIVE InsertInto(_, _)
InsertInto(sorted, x) ==
    IF sorted = <<>> \/ Compare(Last(sorted), x) <= 0 THEN Append(sorted, x)
    ELSE Append(InsertInto(Front(sorted), x), Last(sorted))

RECURSIVE InsertionSort(_)
InsertionSort(s) ==
    IF Len(s) <= 1 THEN s ELSE InsertInto(InsertionSort(Front(s)), Last(s))

RECURSIVE Merge(_, _)
Merge(a, b) ==
    IF a = <<>> THEN b
    ELSE IF b = <<>> THEN a
    ELSE IF Compare(a[1], b[1]) <= 0 THEN <<a[1]>> \o Merge(Tail(a), b)
    ELSE <<b[1]>> \o Merge(a, Tail(b))

RECURSIVE MergeSort(_)
MergeSort(s) ==
    IF Len(s) <= 1 THEN s
    ELSE LET mid == Len(s) \div 2
         IN  Merge(MergeSort(SubSeq(s, 1, mid)), MergeSort(SubSeq(s, mid + 1, Len(s))))

\* The sort is stable and, for a consistent comparator, fully specified.  With
\* NaN keys among distinct timestamps the comparator is inconsistent and the
\* order is implementation-defined: the host's algorithm decides.  Two stable
\* algorithms stand for the hosts; the run fixes one of them.
Engines == {"insertion", "merge"}

\* [...plays].sort(cmp): what the caller's array holds once the sorted copy exists
SortedCopy(list, sorted) == list

SortPlays(eng, list) ==
    IF eng = "insertion" THEN InsertionSort(list) ELSE MergeSort(list)

-----------------------------------------------------------------------------
(* calculateMomentumSeries, lines 238-319 *)

\* a local that keeps whatever the previous call left in it
InitialMomentum_Retained(stale) == stale

\* let currentMomentum = 0;
InitialMomentum(stale) == 0

\* a guard that looks at the timestamp only
ValidPlay_TimestampOnly(play) == play.wallclock # 0

\* the guard of line 257 negated
ValidPlay(play) == play.wallclock # 0 /\ play.team.defined /\ play.team.id # ""

\* the wall-clock policy of the earlier builder (lines 95-104) in place of the
\* position-based one
DecayMultiplier_WallClock(sorted, idx) ==
    CalculateTimeDecay(GetTime(sorted[idx + 1].wallclock),
                       GetTime(Last(sorted).wallclock), maxWindowMinutes)

\* lines 263-271 (thousandths); idx is the 0-based loop index
DecayMultiplier(sorted, idx) ==
    LET playsBack == Len(sorted) - idx - 1
    IN  IF playsBack > decayWindow
        THEN Max(300, 1000 - ((playsBack - decayWindow) * 1000) \div (decayWindow * 2))
        ELSE 1000

\* crediting every recognised team's play to the home side
ApplyImpact_NoAwaySign(momentum, teamId, finalImpact, home, away) ==
    IF teamId = home \/ teamId = away THEN momentum + finalImpact ELSE momentum

\* lines 275-282
ApplyImpact(momentum, teamId, finalImpact, home, away) ==
    IF teamId = home THEN momentum + finalImpact
    ELSE IF teamId = away THEN momentum - finalImpact
    ELSE momentum

\* a clamp that forgets the upper limit
Clamp_LowerOnly(x) == Max(-momentumMax * 1000, x)

\* Math.max(-momentumMax, Math.min(momentumMax, x))
Clamp(x) == Max(-momentumMax * 1000, Min(momentumMax * 1000, x))

\* parseFloat(x.toFixed(2)): to the nearest hundredth, halves away from zero
ToFixed2(x) ==
    LET r == ((Abs(x) + 5) \div 10) * 10
    IN  IF x < 0 THEN -r ELSE r

\* the object pushed at lines 287-298 (modelled fields)
Sample(play, momentum, raw) ==
    [text     |-> play.text,
     teamId   |-> play.team.id,
     momentum |-> Rat(ToFixed2(momentum), 1),
     rawImpact |-> raw,
     type     |-> TypeTextOf(play.type)]

ClampRat(r) ==
    IF r.num > momentumMax * 1000 * r.den THEN Rat(momentumMax * 1000, 1)
    ELSE IF r.num < -momentumMax * 1000 * r.den THEN Rat(-momentumMax * 1000, 1)
    ELSE r

MaxMomentum(h) == CHOOSE m \in {h[k].momentum.num : k \in DOMAIN h} :
                      \A k \in DOMAIN h : h[k].momentum.num <= m
MinMomentum(h) == CHOOSE m \in {h[k].momentum.num : k \in DOMAIN h} :
                      \A k \in DOMAIN h : h[k].momentum.num >= m

\* max - min of line 307; the values are still two-decimal numbers (den = 1)
Range(h) == MaxMomentum(h) - MinMomentum(h)

\* a return that leaves the rescale pass out
Normalize_Skipped(h) == h

\* lines 301-316: h.momentum * (20 / range), re-clamped
Normalize(h) ==
    IF h # <<>> /\ Range(h) > 0 /\ Range(h) < 20000
    THEN [k \in DOMAIN h |->
            [h[k] EXCEPT !.momentum = ClampRat(Rat(h[k].momentum.num * 20000, Range(h)))]]
    ELSE h

-----------------------------------------------------------------------------
(* Inputs *)

TypeUndefined == [kind |-> "undefined", text |-> <<>>]
TypeString(t) == [kind |-> "string", text |-> t]
TypeObject(t) == [kind |-> "object", text |-> t]

Team(id) == [defined |-> TRUE, id |-> id]
NoTeam == [defined |-> FALSE, id |-> ""]

Play(text, type, scoring, value, wallclock, team) ==
    [text |-> text, type |-> type, scoringPlay |-> scoring, scoreValue |-> value,
     wallclock |-> wallclock, team |-> team]

\* homeTeamId / awayTeamId are null when the box score names no teams
\* (server/index.js lines 46-59)
NullId == "null"

\* the general family: short lists over plays that differ in team, timestamp
\* (ties, absent) and impact
GeneralPlays ==
    { Play(TxtDunkOffSteal, TypeObject(TxtTypeDunkShot), TRUE, 2, 1, Team("LAL")),
      Play(TxtDunkOffSteal, TypeObject(TxtTypeDunkShot), TRUE, 2, 2, Team("LAL")),
      Play(TxtFastBreakDunk, TypeObject(TxtTypeDunkShot), TRUE, 2, 1, Team("BOS")),
      Play(TxtThreePointJumper, TypeObject(TxtTypeJumpShot), TRUE, 3, 2, Team("LAL")),
      Play(TxtBadPassSteal, TypeObject(TxtTypeBadPassTurnover), FALSE, 0, 3, Team("LAL")),
      Play(TxtThreePointJumper, TypeObject(TxtTypeJumpShot), TRUE, 3, 0, Team("LAL")),
      Play(TxtRebound, TypeObject(<<>>), FALSE, 0, 2, NoTeam),
      Play(TxtBlocksShot, TypeObject(TxtTypeBlockShot), FALSE, 0, 2, Team("")),
      Play(TxtThreePointJumper, TypeObject(TxtTypeJumpShot), TRUE, 3, 3, Team("NYK")) }

\* the disorder family: one play without a timestamp among plays at
\* different ticks, in every source order
DisorderPlays ==
    { Play(TxtThreePointJumper, TypeObject(TxtTypeJumpShot), TRUE, 3, 1, Team("LAL")),
      Play(TxtThreePointJumper, TypeObject(TxtTypeJumpShot), TRUE, 3, 0, Team("LAL")),
      Play(TxtFastBreakDunk, TypeObject(TxtTypeDunkShot), TRUE, 2, 3, Team("BOS")) }

DisorderLists ==
    {l \in [1 .. 3 -> DisorderPlays] : \A a, b \in 1 .. 3 : a # b => l[a] # l[b]}

RECURSIVE ListsUpTo(_, _)
ListsUpTo(S, n) ==
    IF n = 0 THEN {<<>>}
    ELSE LET shorter == ListsUpTo(S, n - 1)
         IN  shorter \cup {Append(l, p) : l \in shorter, p \in S}

\* the scorer family: one home play, every text against every type
ScorerTexts ==
    { <<>>, TxtThreePointJumper, TxtTurnoverBadPass, TxtFastBreakDunk,
      TxtFastBreakDunkCaps, TxtAlleyOopLayup, TxtAlleyOopSpaced, TxtLayupAnd1,
      TxtLayupAndOneSpaced, TxtLayupFoul, TxtBlocksShot, TxtBadPassSteal, TxtRebound }

ScorerTypes ==
    { TypeUndefined, TypeString(TxtTypeTurnover), TypeObject(<<>>),
      TypeObject(TxtTypeTurnover), TypeObject(TxtTypeDunkShot),
      TypeObject(TxtTypeBlockShot), TypeObject(TxtTypeFastBreakLayup),
      TypeObject(TxtTypeSteal), TypeObject(TxtTypeJumpShot) }

ScorerPlays ==
    { Play(t, ty, sc, IF sc THEN v ELSE 0, 1, Team("LAL")) :
        t \in ScorerTexts, ty \in ScorerTypes, sc \in BOOLEAN, v \in 0 .. MaxScoreValue }

\* the long-game family: lists that repeat a pair of plays, one per tick
LongKinds ==
    { Play(TxtFastBreakDunk, TypeObject(TxtTypeDunkShot), TRUE, 2, 1, Team("LAL")),
      Play(TxtFastBreakDunk, TypeObject(TxtTypeDunkShot), TRUE, 2, 1, Team("BOS")),
      Play(TxtBadPassSteal, TypeObject(TxtTypeBadPassTurnover), FALSE, 0, 1, Team("LAL")),
      Play(TxtRebound, TypeObject(<<>>), FALSE, 0, 1, NoTeam),
      Play(TxtThreePointJumper, TypeObject(TxtTypeJumpShot), TRUE, 3, 1, Team("BOS")) }

LongLengths == {decayWindow + 2, 2 * decayWindow, MaxLong - 1, MaxLong}

LongList(a, b, n) ==
    [k \in 1 .. n |-> [(IF k % 2 = 1 THEN a ELSE b) EXCEPT !.wallclock = k]]

NoCall == [called |-> FALSE, plays |-> <<>>, playsDefined |-> FALSE,
           homeTeamId |-> NullId, awayTeamId |-> NullId, trace |-> <<>>]

ThisCall == [called |-> TRUE, plays |-> plays, playsDefined |-> playsDefined,
             homeTeamId |-> homeTeamId, awayTeamId |-> awayTeamId, trace |-> history]

-----------------------------------------------------------------------------
(* The dashboard before anything has been received *)

NoWindow == [set |-> FALSE, start |-> 0, end |-> 0]
NoTeamInfo == [present |-> FALSE, id |-> "", name |-> "", score |-> <<>>]
DnaIdle == [deps |-> <<>>, input |-> <<>>, vector |-> <<>>, query |-> <<>>,
            status |-> "unmounted"]
ChartIdle == [mounted |-> FALSE, timer |-> FALSE, bound |-> <<>>,
              request |-> [sent |-> FALSE, momentum_window |-> <<>>, score_diff |-> 0],
              sent |-> 0]
NoTrend == [direction |-> "", strength |-> "", volatility |-> ""]
NoNarrative == [kind |-> "none", sentences |-> <<>>, trend |-> NoTrend]

\* the games the library offers
Games == {"A", "B"}

NoGame == "none"

\* App state after construction: no game selected, the loading placeholder
\* shown, no error; the game-list request of the mount effect is in flight.
\*   timers[g]:   interval timers that poll game g
\*   effectGame:  the game the live poll effect was run for
\*   inFlight[g]: game-data requests for g that have not settled
\*   shown:       the game whose data the dashboard displays
\*   applied:     the game of the response applied last, and a bit that flips on
\*                every application
AppIdle ==
    [activeGameId |-> NoGame, loading |-> TRUE, error |-> FALSE, listPending |-> TRUE,
     timers |-> [g \in Games |-> 0], effectGame |-> NoGame,
     inFlight |-> [g \in Games |-> 0], shown |-> NoGame,
     applied |-> [game |-> NoGame, flip |-> FALSE]]

ClientIdle ==
    /\ momentumData = <<>>
    /\ momentumDefined = TRUE
    /\ selectedTimeWindow = NoWindow
    /\ homeTeam = NoTeamInfo
    /\ awayTeam = NoTeamInfo
    /\ period = 0
    /\ clock = <<>>
    /\ dna = DnaIdle
    /\ chart = ChartIdle
    /\ narrative = NoNarrative
    /\ app = AppIdle

-----------------------------------------------------------------------------
(* The state machine *)

InitLocals ==
    /\ pc = "idle"
    /\ sortedPlays = <<>>
    /\ i = 0
    /\ currentMomentum = 0
    /\ rawImpact = 0
    /\ decayMultiplier = 1000
    /\ history = <<>>
    /\ prev = NoCall

InitGeneral ==
    /\ plays \in ListsUpTo(GeneralPlays, MaxLen)
    /\ playsDefined = TRUE
    /\ \E ids \in {<<"LAL", "BOS">>, <<NullId, NullId>>} :
          homeTeamId = ids[1] /\ awayTeamId = ids[2]

InitDisorder ==
    /\ plays \in DisorderLists
    /\ playsDefined = TRUE
    /\ homeTeamId = "LAL"
    /\ awayTeamId = "BOS"

InitAbsent ==
    /\ plays = <<>>
    /\ playsDefined = FALSE
    /\ homeTeamId = "LAL"
    /\ awayTeamId = "BOS"

InitScorer ==
    /\ plays \in {<<p>> : p \in ScorerPlays}
    /\ playsDefined = TRUE
    /\ homeTeamId = "LAL"
    /\ awayTeamId = "BOS"

InitLong ==
    /\ plays \in {LongList(a, b, n) : a \in LongKinds, b \in LongKinds, n \in LongLengths}
    /\ playsDefined = TRUE
    /\ homeTeamId = "LAL"
    /\ awayTeamId = "BOS"

Init ==
    /\ engine \in Engines
    /\ InitLocals
    /\ (InitGeneral \/ InitDisorder \/ InitAbsent \/ InitScorer \/ InitLong)
    /\ ClientIdle

\* lines 238-253: entry, the early return, the locals, the sorted copy
Call ==
    /\ pc = "idle"
    /\ IF ~playsDefined \/ Len(plays) = 0
       THEN /\ history' = <<>>
            /\ pc' = "done"
            /\ UNCHANGED <<plays, sortedPlays, i, currentMomentum>>
       ELSE /\ currentMomentum' = InitialMomentum(currentMomentum)
            /\ history' = <<>>
            /\ sortedPlays' = SortPlays(engine, plays)
            /\ plays' = SortedCopy(plays, sortedPlays')
            /\ i' = 0
            /\ pc' = "loop"
    /\ rawImpact' = 0
    /\ decayMultiplier' = 1000
    /\ UNCHANGED <<engine, playsDefined, homeTeamId, awayTeamId, prev>>
    /\ UNCHANGED clientVars

\* lines 255-257: an event without timestamp or team id is passed over
SkipPlay ==
    /\ pc = "loop"
    /\ i < Len(sortedPlays)
    /\ ~ValidPlay(sortedPlays[i + 1])
    /\ i' = i + 1
    /\ UNCHANGED <<engine, plays, playsDefined, homeTeamId, awayTeamId, pc, sortedPlays,
                   currentMomentum, rawImpact, decayMultiplier, history, prev>>
    /\ UNCHANGED clientVars

\* lines 259-298: one fold step
FoldPlay ==
    /\ pc = "loop"
    /\ i < Len(sortedPlays)
    /\ ValidPlay(sortedPlays[i + 1])
    /\ LET play == sortedPlays[i + 1]
           raw == CalculatePlayImpact(play)
           decay == DecayMultiplier(sortedPlays, i)
           finalImpact == raw * decay
           momentum == Clamp(ApplyImpact(currentMomentum, play.team.id, finalImpact,
                                         homeTeamId, awayTeamId))
       IN  /\ rawImpact' = raw
           /\ decayMultiplier' = decay
           /\ currentMomentum' = momentum
           /\ history' = Append(history, Sample(play, momentum, raw))
    /\ i' = i + 1
    /\ UNCHANGED <<engine, plays, playsDefined, homeTeamId, awayTeamId, pc, sortedPlays, prev>>
    /\ UNCHANGED clientVars

\* lines 301-318: the range rescale and the return
Return ==
    /\ pc = "loop"
    /\ i = Len(sortedPlays)
    /\ history' = Normalize(history)
    /\ pc' = "done"
    /\ UNCHANGED <<engine, plays, playsDefined, homeTeamId, awayTeamId, sortedPlays, i,
                   currentMomentum, rawImpact, decayMultiplier, prev>>
    /\ UNCHANGED clientVars

\* the caller between two calls: it keeps the returned trace of this call or of
\* an earlier one, and calls again with the same list or with the list in the
\* opposite order (the source delivers oldest-first or newest-first)
NextCall ==
    /\ pc = "done"
    /\ prev' \in ({ThisCall} \cup (IF prev.called THEN {prev} ELSE {}))
    /\ plays' \in {plays, [k \in DOMAIN plays |-> plays[Len(plays) + 1 - k]]}
    /\ pc' = "idle"
    /\ UNCHANGED <<engine, playsDefined, homeTeamId, awayTeamId, sortedPlays, i,
                   currentMomentum, rawImpact, decayMultiplier, history>>
    /\ UNCHANGED clientVars

Next == Call \/ SkipPlay \/ FoldPlay \/ Return \/ NextCall

Spec == Init /\ [][Next]_vars

-----------------------------------------------------------------------------
(* Properties of the series builder *)

MomentumLimit == momentumMax * 1000

\* the play the loop has just passed (i already counts it)
JustPassed == sortedPlays[i]
JustFolded == pc = "loop" /\ i > 0 /\ ValidPlay(JustPassed)

\* C1: every sample of the trace has momentum in [-100, 100], after each fold
\* step and after the final rescale; so has the running momentum.
C1_MomentumClamped ==
    /\ currentMomentum >= -MomentumLimit
    /\ currentMomentum <= MomentumLimit
    /\ \A k \in DOMAIN history :
         /\ history[k].momentum.num >= -MomentumLimit * history[k].momentum.den
         /\ history[k].momentum.num <= MomentumLimit * history[k].momentum.den

\* a returned trace of a long game in which the fold ran into the upper limit
C1_Witness ==
    /\ pc = "done"
    /\ Len(history) > decayWindow
    /\ currentMomentum = MomentumLimit
    /\ \E k \in DOMAIN history : history[k].momentum = Rat(MomentumLimit, 1)

\* the rules of the scorer as the specification lists them
RuleTable(play) ==
    LET text == ToLowerCase(play.text)
        type == ToLowerCase(TypeTextOf(play.type))
    IN  << [applies |-> play.scoringPlay, value |-> 2 * play.scoreValue],
           [applies |-> Includes(type, PatTurnover) \/ Includes(text, PatTurnover),
            value |-> -5],
           [applies |-> Includes(type, PatFastBreak) \/ Includes(text, PatFastBreak),
            value |-> 3],
           [applies |-> Includes(type, PatDunk) \/ Includes(text, PatDunk)
                          \/ Includes(text, PatAlleyOopSpace)
                          \/ Includes(text, PatAlleyOopHyphen),
            value |-> 2],
           [applies |-> Includes(text, PatAnd1Space) \/ Includes(text, PatAnd1Hyphen)
                          \/ (play.scoringPlay /\ play.scoreValue > 0
                              /\ Includes(text, PatFoul)),
            value |-> 2],
           [applies |-> Includes(type, PatBlock) \/ Includes(text, PatBlock), value |-> 4],
           [applies |-> Includes(type, PatSteal) \/ Includes(text, PatSteal), value |-> 4] >>

Contribution(rule) == IF rule.applies THEN rule.value ELSE 0

SumOfRules(play) ==
    LET t == RuleTable(play)
    IN  Contribution(t[1]) + Contribution(t[2]) + Contribution(t[3]) + Contribution(t[4])
        + Contribution(t[5]) + Contribution(t[6]) + Contribution(t[7])

RulesApplying(play) ==
    LET t == RuleTable(play)
    IN  Cardinality({n \in DOMAIN t : t[n].applies})

HasContent(play, text, type, scoring, value) ==
    /\ play.text = text
    /\ play.type = type
    /\ play.scoringPlay = scoring
    /\ play.scoreValue = value

\* C3 as stated: 6 for the three point jumper, -5 for the turnover, 11 for the
\* fast break dunk, each play written without a type object.
C3_StatedExamples ==
    JustFolded =>
        /\ HasContent(JustPassed, TxtThreePointJumper, TypeUndefined, TRUE, 3)
             => rawImpact = 6
        /\ HasContent(JustPassed, TxtTurnoverBadPass, TypeString(TxtTypeTurnover), FALSE, 0)
             => rawImpact = -5
        /\ HasContent(JustPassed, TxtFastBreakDunk, TypeUndefined, TRUE, 2)
             => rawImpact = 11

\* C3 (amended): the plays as written score 0, -5 and 0, because the first and
\* the third carry no type; with a type object the three point jumper scores 6
\* and the fast break dunk 9 (2*2 + 3 + 2).
C3_Examples ==
    JustFolded =>
        /\ HasContent(JustPassed, TxtThreePointJumper, TypeUndefined, TRUE, 3)
             => rawImpact = 0
        /\ HasContent(JustPassed, TxtTurnoverBadPass, TypeString(TxtTypeTurnover), FALSE, 0)
             => rawImpact = -5
        /\ HasContent(JustPassed, TxtFastBreakDunk, TypeUndefined, TRUE, 2)
             => rawImpact = 0
        /\ HasContent(JustPassed, TxtThreePointJumper, TypeObject(<<>>), TRUE, 3)
             => rawImpact = 6
        /\ HasContent(JustPassed, TxtFastBreakDunk, TypeObject(<<>>), TRUE, 2)
             => rawImpact = 9

\* the fast break dunk of the example, folded as written
C3_Witness ==
    /\ JustFolded
    /\ HasContent(JustPassed, TxtFastBreakDunk, TypeUndefined, TRUE, 2)
    /\ rawImpact = 0

\* an event that has both a timestamp and a team id
HasTimestampAndTeam(play) ==
    play.wallclock > 0 /\ play.team.defined /\ play.team.id # ""

SampleKey(sample) == <<sample.text, sample.teamId, sample.type>>
PlayKey(play) == <<play.text, play.team.id, TypeTextOf(play.type)>>

\* C4: the returned trace holds exactly one sample per event that has both a
\* timestamp and a team id, none for the others; an empty or absent list gives
\* the empty trace.
C4_OneSamplePerValidEvent ==
    pc = "done" =>
        /\ (~playsDefined \/ plays = <<>>) => history = <<>>
        /\ Len(history) = Cardinality({k \in DOMAIN plays : HasTimestampAndTeam(plays[k])})
        /\ \A key \in {SampleKey(history[k]) : k \in DOMAIN history}
                      \cup {PlayKey(plays[k]) : k \in DOMAIN plays} :
             Cardinality({k \in DOMAIN history : SampleKey(history[k]) = key})
               = Cardinality({k \in DOMAIN plays :
                                HasTimestampAndTeam(plays[k]) /\ PlayKey(plays[k]) = key})

\* a returned trace that is shorter than its play list, and not empty
C4_Witness ==
    /\ pc = "done"
    /\ history # <<>>
    /\ Len(history) < Len(plays)
    /\ \E k \in DOMAIN plays : plays[k].wallclock = 0 \/ ~plays[k].team.defined

SameBag(a, b) ==
    /\ Len(a) = Len(b)
    /\ \A x \in {a[k] : k \in DOMAIN a} \cup {b[k] : k \in DOMAIN b} :
         Cardinality({k \in DOMAIN a : a[k] = x}) = Cardinality({k \in DOMAIN b : b[k] = x})

\* C5 as stated: two play lists that are permutations of each other give the
\* same trace, and the samples are in ascending wall-clock order.
C5_SourceOrderIrrelevant ==
    /\ (/\ pc = "done"
        /\ prev.called
        /\ prev.playsDefined = playsDefined
        /\ prev.homeTeamId = homeTeamId
        /\ prev.awayTeamId = awayTeamId
        /\ SameBag(prev.plays, plays))
       => history = prev.trace
    /\ pc \in {"loop", "done"} =>
         \A a, b \in DOMAIN sortedPlays :
            (a < b /\ ValidPlay(sortedPlays[a]) /\ ValidPlay(sortedPlays[b]))
               => sortedPlays[a].wallclock <= sortedPlays[b].wallclock

\* the decay policy as the specification words it (thousandths)
PositionPolicy(distanceBack) ==
    IF distanceBack < 10 THEN 1000
    ELSE Max(300, 1000 - 50 * (distanceBack - 10))

\* C6: every folded event is weighted by the position-based multiplier: 1.0
\* within the most recent 10 positions, else max(0.3, 1-(distanceBack-10)/20),
\* always in [0.3, 1.0]; the wall-clock policy is not what weights it.
C6_PositionDecayOnly ==
    JustFolded =>
        /\ decayMultiplier = PositionPolicy(Len(sortedPlays) - i)
        /\ decayMultiplier >= 300
        /\ decayMultiplier <= 1000

\* an event the wall-clock policy would have cut off, folded at the floor 0.3
C6_Witness ==
    /\ JustFolded
    /\ decayMultiplier = 300
    /\ rawImpact # 0
    /\ CalculateTimeDecay(GetTime(JustPassed.wallclock),
                          GetTime(Last(sortedPlays).wallclock), maxWindowMinutes) = 0

\* C7: a fold step moves the running momentum by +rawImpact*decay for a home
\* play, by -rawImpact*decay for an away play, and not at all for any other
\* team, before the clamp.
C7_FoldStepEffect ==
    [][(pc = "loop" /\ i' = i + 1 /\ ValidPlay(sortedPlays[i + 1])) =>
         LET teamId == sortedPlays[i + 1].team.id
             change == IF teamId = homeTeamId THEN rawImpact' * decayMultiplier'
                       ELSE IF teamId = awayTeamId THEN -(rawImpact' * decayMultiplier')
                       ELSE 0
             unclamped == currentMomentum + change
         IN  currentMomentum' =
                 IF unclamped > MomentumLimit THEN MomentumLimit
                 ELSE IF unclamped < -MomentumLimit THEN -MomentumLimit
                 ELSE unclamped]_vars

\* an away play with a positive impact has just pushed the momentum below zero
C7_Witness ==
    /\ JustFolded
    /\ JustPassed.team.id = awayTeamId
    /\ rawImpact > 0
    /\ currentMomentum = -(rawImpact * decayMultiplier)

\* the list of the example: two home plays, each of impact 10 at full weight
TwoHomePlaysOfTen ==
    /\ playsDefined
    /\ Len(plays) = 2
    /\ \A k \in DOMAIN plays :
         /\ ValidPlay(plays[k])
         /\ plays[k].team.id = homeTeamId
         /\ CalculatePlayImpact(plays[k]) = 10

C9_RescaleKeepsSignAndOrder ==
    [][(pc = "loop" /\ pc' = "done") =>
         IF history # <<>> /\ Range(history) > 0 /\ Range(history) < 20000
         THEN /\ \A k \in DOMAIN history :
                   /\ history'[k].momentum =
                        ClampRat(Rat(history[k].momentum.num * 20000, Range(history)))
                   /\ RatSign(history'[k].momentum) = RatSign(history[k].momentum)
              /\ \A j, k \in DOMAIN history :
                   RatLess(history[j].momentum, history[k].momentum)
                     <=> RatLess(history'[j].momentum, history'[k].momentum)
         ELSE history' = history]_vars

\* C10: the builder is a pure full recompute: a call with the arguments of an
\* earlier call returns the trace that call returned, whatever was called in
\* between, and no step of a call changes the caller's play list.
C10_PureRecompute ==
    /\ []((/\ pc = "done"
           /\ prev.called
           /\ prev.playsDefined = playsDefined
           /\ prev.homeTeamId = homeTeamId
           /\ prev.awayTeamId = awayTeamId
           /\ prev.plays = plays)
          => history = prev.trace)
    /\ [][pc # "done" => plays' = plays]_vars

\* a second call on an unsorted list has returned a trace that is not flat
C10_Witness ==
    /\ pc = "done"
    /\ prev.called
    /\ prev.plays = plays
    /\ sortedPlays # plays
    /\ currentMomentum # 0
    /\ Len(history) >= 2

-----------------------------------------------------------------------------
(***************************************************************************)
(* The dashboard (src/components, src/utils, the App component).           *)
(*                                                                         *)
(* Representation.                                                         *)
(*   - A point of the trace carries momentum in tenths of a point; the     *)
(*     fixtures have one decimal, so momentum / 100 is a whole number of   *)
(*     thousandths and toFixed(3) has no rounding to do.                   *)
(*   - Scoreboard.tsx declares GameDNA twice; the model follows the later  *)
(*     declaration (lines 241-299), the one that takes a selected window.  *)
(*   - A state change and the effect it triggers are one step: React runs  *)
(*     the effect of a commit before it handles the next event.            *)
(***************************************************************************)

vectorLength == 20
minDnaPoints == 15
windowSize == 20

\* number of distinct wave-shaped traces per length
MaxShape == 2

Point(m, raw, team, text, type, hs, as) ==
    [momentum |-> m, rawImpact |-> raw, teamId |-> team, text |-> text, type |-> type,
     homeScore |-> hs, awayScore |-> as]

\* Array.prototype.slice(from, to) with 0 <= from
Slice(s, from, to) == SubSeq(s, from + 1, Min(to, Len(s)))

RECURSIVE Repeat(_, _)
Repeat(v, n) == IF n <= 0 THEN <<>> ELSE <<v>> \o Repeat(v, n - 1)

RECURSIVE Pow2(_)
Pow2(k) == IF k <= 0 THEN 1 ELSE 2 * Pow2(k - 1)

\* floor(log2(a / b)) for a >= b > 0
RECURSIVE Log2Floor(_, _)
Log2Floor(a, b) == IF 2 * b <= a THEN 1 + Log2Floor(a, 2 * b) ELSE 0

-----------------------------------------------------------------------------
(* Double arithmetic of Math.floor(i * (n / 20)), lines 267-271 *)

\* step = n / 20 is rounded to 53 significant bits.  n / 20 = (n / 5) / 4 and the
\* division by 4 is exact; the remainder of the 53-bit division by 5 decides the
\* rounding, so step = n/20 + (StepError / 5) ulp(step), StepError in -2 .. 2.
StepError(n) ==
    LET r == ((n % 5) * Pow2((50 - Log2Floor(n, vectorLength)) % 4)) % 5
    IN  IF r = 0 THEN 0 ELSE IF r <= 2 THEN -r ELSE 5 - r

\* Math.floor(i * step).  The product is rounded to 53 bits again.  When i * n / 20
\* is not whole the error (below 2^-40) cannot reach a whole number.  When it is a
\* whole number K and step was rounded down, the product lies i * |e| / 5 ulp(step)
\* below K and rounds to K only if that is at most half the spacing of the doubles
\* just below K (a tie goes to K, whose significand is even).
StrideIndex(idx, n) ==
    LET K == (idx * n) \div vectorLength
        e == StepError(n)
        E1 == Log2Floor(n, vectorLength)
        E2 == Log2Floor(K, 1)
        below == IF K = Pow2(E2) THEN E2 - 1 ELSE E2
    IN  IF (idx * n) % vectorLength # 0 \/ idx = 0 \/ e >= 0 THEN K
        ELSE IF 2 * idx * (-e) * Pow2(E1) > 5 * Pow2(below) THEN K - 1
        ELSE K

-----------------------------------------------------------------------------
(* GameDNA: the fingerprint vector, lines 256-283 *)

Undefined == "undefined"

\* lines 256-258: the selected window, or the whole trace
DataToUse(data, window) ==
    IF window.set THEN Slice(data, window.start, window.end + 1) ELSE data

\* lines 262-265: momentum / 100 clamped to [-1, 1], in thousandths
NormalizeComponent(p) == Max(-1000, Min(1000, p.momentum))

MapNormalize(s) == [k \in 1..Len(s) |-> NormalizeComponent(s[k])]

\* lines 266-273
Downsample(vector) ==
    [k \in 1..vectorLength |-> vector[StrideIndex(k - 1, Len(vector)) + 1]]

\* lines 274-280: vector[-1] of an empty array is undefined
PadWithLast_Zero(vector) == vector \o Repeat(0, vectorLength - Len(vector))

PadWithLast(vector) ==
    LET lastVal == IF vector = <<>> THEN Undefined ELSE vector[Len(vector)]
    IN  vector \o Repeat(lastVal, vectorLength - Len(vector))

BuildVector_NoPad(dataToUse) ==
    LET vector == MapNormalize(dataToUse)
    IN  IF Len(vector) > vectorLength THEN Downsample(vector) ELSE vector

BuildVector(dataToUse) ==
    LET vector == MapNormalize(dataToUse)
    IN  IF Len(vector) > vectorLength THEN Downsample(vector)
        ELSE IF Len(vector) < vectorLength THEN PadWithLast(vector)
        ELSE vector

Digit(d) == <<"0", "1", "2", "3", "4", "5", "6", "7", "8", "9">>[d + 1]

\* Number.prototype.toFixed(3) of a whole number of thousandths
ToFixed3(v) ==
    LET a == Abs(v)
    IN  (IF v < 0 THEN <<"-">> ELSE <<>>) \o
        <<Digit(a \div 1000), ".", Digit((a \div 100) % 10), Digit((a \div 10) % 10),
          Digit(a % 10)>>

\* line 282: vector.map(v => v.toFixed(3)).join(',')
RECURSIVE JoinFixed(_)
JoinFixed(vector) ==
    IF vector = <<>> THEN <<>>
    ELSE IF Len(vector) = 1 THEN ToFixed3(vector[1])
    ELSE ToFixed3(Head(vector)) \o <<",">> \o JoinFixed(Tail(vector))

\* the dependency list of the effect, line 295
DnaDeps(data, window) ==
    <<Len(data), IF window.set THEN <<window.start, window.end>> ELSE <<>>>>

\* lines 245-293, one run of the effect.  undefined.toFixed throws, the catch
\* logs it and no request is sent.
FetchGameDNA(data, window) ==
    IF Len(data) < minDnaPoints
    THEN [deps |-> DnaDeps(data, window), input |-> <<>>, vector |-> <<>>,
          query |-> <<>>, status |-> "cleared"]
    ELSE LET dataToUse == DataToUse(data, window)
             vector == BuildVector(dataToUse)
         IN  IF dataToUse = <<>>
             THEN [deps |-> DnaDeps(data, window), input |-> dataToUse,
                   vector |-> vector, query |-> <<>>, status |-> "threw"]
             ELSE [deps |-> DnaDeps(data, window), input |-> dataToUse,
                   vector |-> vector, query |-> JoinFixed(vector),
                   status |-> "requested"]

\* the effect runs after a commit that changed a dependency
DnaAfterCommit(data, window) ==
    IF dna.status # "unmounted" /\ dna.deps # DnaDeps(data, window)
    THEN FetchGameDNA(data, window)
    ELSE dna

-----------------------------------------------------------------------------
(* Traces the dashboard can receive *)

\* momentum of point j of wave k, tenths: distinct at distinct j < 1999
Wave(k, j) == ((j * (137 + k)) % 1999) - 999

WaveTrace(k, n) == [j \in 1..n |-> Point(Wave(k, j), 0, "", <<>>, <<>>, 0, 0)]
FlatTrace(m, n) == [j \in 1..n |-> Point(m, 0, "", <<>>, <<>>, 0, 0)]

DnaLengths == {0, 14, 15, 20, 21, 40, 41, 164, 500}

DnaTraces ==
    {WaveTrace(k, n) : k \in 1..MaxShape, n \in DnaLengths}
        \cup {FlatTrace(m, n) : m \in {-1000, 1000}, n \in DnaLengths}

\* the points of the chart the user clicks
ClickPoints(data) == {0, 30, Len(data) - 1} \cap (0 .. Len(data) - 1)

\* MomentumChart.tsx lines 273-282 and the App's onTimePeriodSelect
ClickWindow(data, clickedIndex) ==
    [set |-> TRUE,
     start |-> Max(0, clickedIndex - windowSize \div 2),
     end |-> Min(Len(data) - 1, clickedIndex + windowSize \div 2)]

-----------------------------------------------------------------------------
(* GameDNA under the dashboard: mount, a new trace, a click on the chart *)

InitServerIdle ==
    /\ engine = "insertion"
    /\ InitLocals
    /\ InitAbsent

InitDNA ==
    /\ InitServerIdle
    /\ ClientIdle

MountDNA ==
    /\ dna.status = "unmounted"
    /\ dna' = FetchGameDNA(momentumData, selectedTimeWindow)
    /\ UNCHANGED <<momentumData, momentumDefined, selectedTimeWindow, homeTeam, awayTeam, period, clock,
                   chart, narrative>>
    /\ UNCHANGED <<serverVars, app>>

ReceiveTrace ==
    /\ dna.status # "unmounted"
    /\ \E trace \in DnaTraces :
          /\ momentumData' = trace
          /\ dna' = DnaAfterCommit(trace, selectedTimeWindow)
    /\ UNCHANGED <<momentumDefined, selectedTimeWindow, homeTeam, awayTeam, period, clock, chart, narrative>>
    /\ UNCHANGED <<serverVars, app>>

SelectTimePeriod ==
    /\ dna.status # "unmounted"
    /\ \E clickedIndex \in ClickPoints(momentumData) :
          /\ selectedTimeWindow' = ClickWindow(momentumData, clickedIndex)
          /\ dna' = DnaAfterCommit(momentumData, selectedTimeWindow')
    /\ UNCHANGED <<momentumData, momentumDefined, homeTeam, awayTeam, period, clock, chart, narrative>>
    /\ UNCHANGED <<serverVars, app>>

\* the response (or the failure) of the similar-games request arrives
SettleDNA ==
    /\ dna.status = "requested"
    /\ dna' = [dna EXCEPT !.status = "settled"]
    /\ UNCHANGED <<momentumData, momentumDefined, selectedTimeWindow, homeTeam, awayTeam, period, clock,
                   chart, narrative>>
    /\ UNCHANGED <<serverVars, app>>

NextDNA == MountDNA \/ ReceiveTrace \/ SelectTimePeriod \/ SettleDNA

SpecDNA == InitDNA /\ [][NextDNA]_vars

-----------------------------------------------------------------------------
(* Properties of the fingerprint vector *)

DnaSent == dna.status \in {"requested", "settled"}

\* C11: every fingerprint vector built from a nonempty input has exactly 20
\* components, each within [-1, 1], and building it again from the same input
\* gives the same vector.
C11_TwentyComponentsInRange ==
    /\ [](DnaSent =>
            /\ Len(dna.input) >= 1
            /\ Len(dna.vector) = vectorLength
            /\ \A k \in 1..Len(dna.vector) : dna.vector[k] >= -1000 /\ dna.vector[k] <= 1000)
    /\ [][(DnaSent /\ DnaSent' /\ dna'.input = dna.input) => dna'.vector = dna.vector]_vars

\* a vector was built from a one-point input (a stale window over a shorter trace)
C11_Witness ==
    /\ DnaSent
    /\ Len(dna.input) = 1
    /\ Len(dna.vector) = vectorLength

\* C12: for an input of more than 20 points, component i (0..19) is the
\* normalized value at index floor(i * n / 20); for n = 40 these are 0, 2, .. 38.
C12_UniformStride ==
    (DnaSent /\ Len(dna.input) > vectorLength) =>
        \A idx \in 0..(vectorLength - 1) :
            dna.vector[idx + 1] =
                NormalizeComponent(dna.input[(idx * Len(dna.input)) \div vectorLength + 1])

\* C13: for an input of at most 20 points the vector is the normalized values in
\* order followed by copies of the last of them, up to 20 components.
C13_PaddedWithLast ==
    (DnaSent /\ Len(dna.input) <= vectorLength) =>
        LET n == Len(dna.input)
        IN  /\ \A k \in 1..n : dna.vector[k] = NormalizeComponent(dna.input[k])
            /\ \A k \in (n + 1)..vectorLength :
                  dna.vector[k] = NormalizeComponent(dna.input[n])
            /\ Len(dna.vector) = vectorLength

\* a short input whose last value differs from zero and from its first value
C13_Witness ==
    /\ DnaSent
    /\ Len(dna.input) < vectorLength
    /\ dna.vector[vectorLength] # 0
    /\ dna.vector[vectorLength] # dna.vector[1]

-----------------------------------------------------------------------------
(* MomentumChart: the run predictor polling, MomentumChart.tsx lines 86-114 *)

minPredictionPoints == 10
predictionWindow == 5

\* most interval ticks followed between two traces
MaxTicks == 3

NoRequest == [sent |-> FALSE, momentum_window |-> <<>>, score_diff |-> 0]

\* data.slice(-5)
LastPoints(data, n) == SubSeq(data, Max(1, Len(data) - n + 1), Len(data))

\* lines 93-103: the body of the POST.  momentum / 100 is in thousandths,
\* score_diff is in tenths of a point.
CheckRunPrediction(data) ==
    LET recentPlays == LastPoints(data, predictionWindow)
    IN  [sent |-> TRUE,
         momentum_window |-> [k \in 1..Len(recentPlays) |-> recentPlays[k].momentum],
         score_diff |-> data[Len(data)].momentum]

\* lines 87-114: one run of the effect over the data of this render; the
\* cleanup of the previous run has cleared its interval
RunPredictorEffect(data) ==
    IF Len(data) < minPredictionPoints
    THEN [mounted |-> TRUE, timer |-> FALSE, bound |-> <<>>, request |-> NoRequest,
          sent |-> 0]
    ELSE [mounted |-> TRUE, timer |-> TRUE, bound |-> data,
          request |-> CheckRunPrediction(data), sent |-> 0]

\* traces with scores: one side scores on every third point, the other on every
\* fourth
ScoredTrace(k, homeAhead, n) ==
    [j \in 1..n |-> Point(Wave(k, j), 0, "", <<>>, <<>>,
                          IF homeAhead THEN j \div 3 ELSE j \div 4,
                          IF homeAhead THEN j \div 4 ELSE j \div 3)]

ChartLengths == {0, 4, 9, 10, 11, 12, 14, 15, 20, 25}

ChartTraces ==
    {ScoredTrace(k, h, n) : k \in 1..MaxShape, h \in BOOLEAN, n \in ChartLengths}

InitChart ==
    /\ InitServerIdle
    /\ ClientIdle

MountChart ==
    /\ ~chart.mounted
    /\ chart' = RunPredictorEffect(momentumData)
    /\ UNCHANGED <<momentumData, momentumDefined, selectedTimeWindow, homeTeam, awayTeam, period, clock,
                   dna, narrative>>
    /\ UNCHANGED <<serverVars, app>>

\* a poll replaces the trace: the effect is cleaned up and runs again
ChartReceiveTrace ==
    /\ chart.mounted
    /\ \E trace \in ChartTraces :
          /\ momentumData' = trace
          /\ chart' = RunPredictorEffect(trace)
    /\ UNCHANGED <<momentumDefined, selectedTimeWindow, homeTeam, awayTeam, period, clock, dna, narrative>>
    /\ UNCHANGED <<serverVars, app>>

\* the 30-second interval fires: the request is built from the captured data
PredictionTick ==
    /\ chart.timer
    /\ chart.sent < MaxTicks
    /\ chart' = [chart EXCEPT !.request = CheckRunPrediction(chart.bound),
                              !.sent = chart.sent + 1]
    /\ UNCHANGED <<momentumData, momentumDefined, selectedTimeWindow, homeTeam, awayTeam, period, clock,
                   dna, narrative>>
    /\ UNCHANGED <<serverVars, app>>

NextChart == MountChart \/ ChartReceiveTrace \/ PredictionTick

SpecChart == InitChart /\ [][NextChart]_vars

\* C14: every run-prediction request carries exactly the last 5 momentum samples
\* divided by 100, oldest first, and a score differential equal to the latest
\* sample's homeScore - awayScore.
C14_RequestWindowAndScoreDiff ==
    chart.request.sent =>
        LET n == Len(momentumData)
        IN  /\ Len(chart.request.momentum_window) = predictionWindow
            /\ \A k \in 1..predictionWindow :
                  chart.request.momentum_window[k] =
                      momentumData[n - predictionWindow + k].momentum
            /\ chart.request.score_diff =
                  10 * (momentumData[n].homeScore - momentumData[n].awayScore)

-----------------------------------------------------------------------------
(***************************************************************************)
(* The narrative engine (src/utils/narrativeEngine.ts).                    *)
(*                                                                         *)
(* A sentence is held as a record: the detector that produced it, which of *)
(* its wordings it is, and the values the template interpolates (team,     *)
(* count, detail); the fixed words of the template are not modelled.  The  *)
(* quarter label and the clock the templates also print are left out.      *)
(* Momentum of the fixtures is a multiple of 0.5, so the sums and means    *)
(* the detectors take in double arithmetic are exact at every threshold.   *)
(***************************************************************************)

minNarrativePoints == 5
trendWindow == 10
runWindow == 10
minRunPoints == 8
keyPlayWindow == 20
swingWindow == 20
minLeadChangePoints == 30
minComebackPoints == 20
maxSwingSentences == 3

NoSentence == [detector |-> "none", kind |-> "", team |-> "", count |-> 0, detail |-> <<>>]

Sentence(detector, kind, team, count, detail) ==
    [detector |-> detector, kind |-> kind, team |-> team, count |-> count,
     detail |-> detail]

DigitChars == {"0", "1", "2", "3", "4", "5", "6", "7", "8", "9"}

DigitValue(c) == CHOOSE d \in 0..9 : Digit(d) = c

\* the value of the leading run of digits of s continued from acc; -1 when s does
\* not start with a digit (NaN)
RECURSIVE LeadingNumber(_, _)
LeadingNumber(s, acc) ==
    IF s = <<>> \/ Head(s) \notin DigitChars THEN acc
    ELSE LeadingNumber(Tail(s), 10 * Max(acc, 0) + DigitValue(Head(s)))

\* parseInt(s) || 0
ParseIntOrZero(s) == Max(LeadingNumber(s, -1), 0)

\* clock.split(':')[0]
RECURSIVE BeforeColon(_)
BeforeColon(s) ==
    IF s = <<>> \/ Head(s) = ":" THEN <<>> ELSE <<Head(s)>> \o BeforeColon(Tail(s))

\* Number(score) || 0 for a score string of digits ("" and NaN give 0)
NumberOrZero(s) ==
    IF \A k \in 1..Len(s) : s[k] \in DigitChars THEN Max(LeadingNumber(s, -1), 0) ELSE 0

\* a || b for numbers
OrElse(a, b) == IF a # 0 THEN a ELSE b

\* lines 44-47
GetTeamForPlay(play, home, away) ==
    IF ~home.present \/ ~away.present THEN "A team"
    ELSE IF play.teamId = home.id THEN home.name ELSE away.name

DetectScoringRuns_AtLeastDouble(data, home, away) ==
    IF Len(data) < 8 THEN NoSentence
    ELSE
    LET last10 == LastPoints(data, runWindow)
        homeScoringPlays == Cardinality({k \in 1..Len(last10) :
            last10[k].rawImpact > 2 /\ home.present /\ last10[k].teamId = home.id})
        awayScoringPlays == Cardinality({k \in 1..Len(last10) :
            last10[k].rawImpact > 2 /\ away.present /\ last10[k].teamId = away.id})
    IN  IF homeScoringPlays >= 4 /\ homeScoringPlays >= awayScoringPlays * 2
        THEN Sentence("ScoringRuns", "run",
                      IF home.present /\ home.name # "" THEN home.name ELSE "The home team",
                      homeScoringPlays, <<>>)
        ELSE IF awayScoringPlays >= 4 /\ awayScoringPlays >= homeScoringPlays * 2
        THEN Sentence("ScoringRuns", "run",
                      IF away.present /\ away.name # "" THEN away.name ELSE "The away team",
                      awayScoringPlays, <<>>)
        ELSE NoSentence

\* lines 49-87: only the counts over the last 10 decide the result
DetectScoringRuns(data, home, away) ==
    IF Len(data) < minRunPoints THEN NoSentence
    ELSE
    LET last10 == LastPoints(data, runWindow)
        homeScoringPlays == Cardinality({k \in 1..Len(last10) :
            last10[k].rawImpact > 2 /\ home.present /\ last10[k].teamId = home.id})
        awayScoringPlays == Cardinality({k \in 1..Len(last10) :
            last10[k].rawImpact > 2 /\ away.present /\ last10[k].teamId = away.id})
    IN  IF homeScoringPlays >= 4 /\ homeScoringPlays > awayScoringPlays * 2
        THEN Sentence("ScoringRuns", "run",
                      IF home.present /\ home.name # "" THEN home.name ELSE "The home team",
                      homeScoringPlays, <<>>)
        ELSE IF awayScoringPlays >= 4 /\ awayScoringPlays > homeScoringPlays * 2
        THEN Sentence("ScoringRuns", "run",
                      IF away.present /\ away.name # "" THEN away.name ELSE "The away team",
                      awayScoringPlays, <<>>)
        ELSE NoSentence

Leader(p) ==
    IF p.homeScore > p.awayScore THEN "home"
    ELSE IF p.awayScore > p.homeScore THEN "away" ELSE "tied"

\* lines 89-109, the loop from sample k on
RECURSIVE LeadChangesFrom(_, _, _)
LeadChangesFrom(data, k, lastLeader) ==
    IF k > Len(data) THEN 0
    ELSE LET current == Leader(data[k])
         IN  (IF current # "tied" /\ lastLeader # "tied" /\ current # lastLeader
              THEN 1 ELSE 0)
             + LeadChangesFrom(data, k + 1, IF current # "tied" THEN current ELSE lastLeader)

DetectLeadChanges(data) == LeadChangesFrom(data, 1, "tied")

RECURSIVE SumMomentum(_, _)
SumMomentum(s, k) == IF k > Len(s) THEN 0 ELSE s[k].momentum + SumMomentum(s, k + 1)

RECURSIVE SumChanges(_, _)
SumChanges(s, k) ==
    IF k > Len(s) THEN 0
    ELSE Abs(s[k].momentum - s[k - 1].momentum) + SumChanges(s, k + 1)

DetectMomentumTrend_Inclusive(data) ==
    IF Len(data) < 5
    THEN [direction |-> "neutral", strength |-> "slight", volatility |-> "stable"]
    ELSE
    LET recent == LastPoints(data, trendWindow)
        n == Len(recent)
        sum == SumMomentum(recent, 1)
        changes == SumChanges(recent, 2)
        last == recent[n].momentum
        mid == recent[n - 2].momentum
        first == recent[1].momentum
        isBuilding == n >= 5 /\ ((last > mid /\ mid > first) \/ (last < mid /\ mid < first))
    IN  [direction |-> IF sum >= 80 * n THEN "home"
                       ELSE IF sum <= -80 * n THEN "away" ELSE "neutral",
         strength |-> IF Abs(sum) >= 300 * n THEN "strong"
                      ELSE IF Abs(sum) >= 120 * n THEN "moderate" ELSE "slight",
         volatility |-> IF isBuilding THEN "building"
                        ELSE IF changes >= 150 * (n - 1) THEN "volatile" ELSE "stable"]

\* lines 111-142; momentum is in tenths, so 8 is 80 and a mean is compared as a sum
DetectMomentumTrend(data) ==
    IF Len(data) < 5
    THEN [direction |-> "neutral", strength |-> "slight", volatility |-> "stable"]
    ELSE
    LET recent == LastPoints(data, trendWindow)
        n == Len(recent)
        sum == SumMomentum(recent, 1)
        changes == SumChanges(recent, 2)
        last == recent[n].momentum
        mid == recent[n - 2].momentum
        first == recent[1].momentum
        isBuilding == n >= 5 /\ ((last > mid /\ mid > first) \/ (last < mid /\ mid < first))
    IN  [direction |-> IF sum > 80 * n THEN "home"
                       ELSE IF sum < -80 * n THEN "away" ELSE "neutral",
         strength |-> IF Abs(sum) > 300 * n THEN "strong"
                      ELSE IF Abs(sum) > 120 * n THEN "moderate" ELSE "slight",
         volatility |-> IF isBuilding THEN "building"
                        ELSE IF changes > 150 * (n - 1) THEN "volatile" ELSE "stable"]

\* lines 264-276: the sentence the trend contributes
TrendSentence(trend, home, away) ==
    LET trendTeam == IF trend.direction = "home" THEN (IF home.present THEN home.name ELSE "")
                     ELSE IF trend.direction = "away"
                     THEN (IF away.present THEN away.name ELSE "")
                     ELSE ""
    IN  IF trendTeam # ""
        THEN IF trend.volatility = "building" /\ trend.strength # "slight"
             THEN Sentence("MomentumTrend", "building", trendTeam, 0, <<trend.strength>>)
             ELSE IF trend.strength = "strong"
             THEN Sentence("MomentumTrend", "firm grip", trendTeam, 0, <<>>)
             ELSE IF trend.strength = "moderate"
             THEN Sentence("MomentumTrend", "favoring", trendTeam, 0, <<>>)
             ELSE NoSentence
        ELSE IF trend.volatility = "volatile"
        THEN Sentence("MomentumTrend", "swinging", "", 0, <<>>)
        ELSE NoSentence

\* lines 144-162, the loop from sample k on: the index of the swing play (0 = none)
\* and the swing
RECURSIVE SwingFrom(_, _, _, _)
SwingFrom(data, k, swingPlay, biggestSwing) ==
    IF k > Len(data) THEN <<swingPlay, biggestSwing>>
    ELSE LET swing == Abs(data[k].momentum - data[k - 1].momentum)
         IN  IF swing > biggestSwing /\ data[k].rawImpact # 0
             THEN SwingFrom(data, k + 1, k, swing)
             ELSE SwingFrom(data, k + 1, swingPlay, biggestSwing)

FindBiggestSwing_AtLeastFive(data) ==
    IF Len(data) < 3 THEN <<0, 0>>
    ELSE LET found == SwingFrom(data, 2, 0, 0)
         IN  IF found[1] # 0 /\ found[2] >= 50 THEN found ELSE <<0, 0>>

\* 5 points of momentum are 50 tenths
FindBiggestSwing(data) ==
    IF Len(data) < 3 THEN <<0, 0>>
    ELSE LET found == SwingFrom(data, 2, 0, 0)
         IN  IF found[1] # 0 /\ found[2] > 50 THEN found ELSE <<0, 0>>

PatThreePoint == <<"t", "h", "r", "e", "e", " ", "p", "o", "i", "n", "t">>
Pat3pt == <<"3", "p", "t">>

\* lines 173-188: how one high-impact play is described ("" = not described)
DescribeKeyPlay(play) ==
    LET type == ToLowerCase(play.type)
        text == ToLowerCase(play.text)
    IN  IF Includes(type, PatBlock) \/ Includes(text, PatBlock) THEN "block"
        ELSE IF Includes(type, PatSteal) \/ Includes(text, PatSteal) THEN "steal"
        ELSE IF Includes(type, PatDunk) \/ Includes(text, PatDunk) THEN "dunk"
        ELSE IF Includes(text, PatThreePoint) \/ Includes(text, Pat3pt) THEN "three-pointer"
        ELSE IF Abs(play.rawImpact) >= 8 THEN "big play"
        ELSE ""

RECURSIVE Descriptions(_, _, _)
Descriptions(points, home, away) ==
    IF points = <<>> THEN <<>>
    ELSE LET d == DescribeKeyPlay(Head(points))
         IN  (IF d = "" THEN <<>> ELSE <<<<d, GetTeamForPlay(Head(points), home, away)>>>>)
             \o Descriptions(Tail(points), home, away)

\* lines 164-193
FindKeyPlays(data, home, away) ==
    LET recent == LastPoints(data, keyPlayWindow)
        highImpact == SelectSeq(recent, LAMBDA p : Abs(p.rawImpact) >= 6)
        highImpactPlays == LastPoints(highImpact, 3)
        descriptions == Descriptions(highImpactPlays, home, away)
    IN  IF Len(highImpactPlays) = 0 \/ Len(descriptions) = 0 THEN NoSentence
        ELSE Sentence("KeyPlays", IF Len(descriptions) = 1 THEN "key play" ELSE "key plays",
                      "", Len(descriptions), descriptions)

GetGameSituation_ControlFirst(data, per, clk, home, away) ==
    IF Len(data) = 0 \/ ~home.present \/ ~away.present THEN NoSentence
    ELSE
    LET latest == data[Len(data)]
        homeScore == OrElse(latest.homeScore, NumberOrZero(home.score))
        awayScore == OrElse(latest.awayScore, NumberOrZero(away.score))
        diff == homeScore - awayScore
        absDiff == Abs(diff)
        leader == IF diff > 0 THEN home.name ELSE away.name
        minutes == ParseIntOrZero(BeforeColon(clk))
        earlier == data[(Len(data) \div 2) + 1]
        earlierDiff == earlier.homeScore - earlier.awayScore
    IN  IF per >= 4 /\ minutes <= 3 /\ absDiff <= 5
        THEN Sentence("GameSituation", "crunch time", leader, absDiff, <<>>)
        ELSE IF per >= 4 /\ minutes <= 5 /\ absDiff <= 10
        THEN Sentence("GameSituation", "holds lead", leader, absDiff, <<>>)
        ELSE IF absDiff >= 15
        THEN Sentence("GameSituation", "in control", leader, absDiff, <<>>)
        ELSE IF absDiff >= 25
        THEN Sentence("GameSituation", "commanding lead", leader, absDiff, <<>>)
        ELSE IF Len(data) >= minComebackPoints /\ diff > 0 /\ earlierDiff > 0
                /\ earlierDiff - diff >= 10
        THEN Sentence("GameSituation", "comeback", away.name, absDiff, <<earlierDiff>>)
        ELSE IF Len(data) >= minComebackPoints /\ diff < 0 /\ earlierDiff < 0
                /\ Abs(earlierDiff) - absDiff >= 10
        THEN Sentence("GameSituation", "comeback", home.name, absDiff, <<Abs(earlierDiff)>>)
        ELSE IF absDiff <= 3
        THEN Sentence("GameSituation", "tight", "", absDiff, <<>>)
        ELSE NoSentence

GetGameSituation_TightFirst(data, per, clk, home, away) ==
    IF Len(data) = 0 \/ ~home.present \/ ~away.present THEN NoSentence
    ELSE
    LET latest == data[Len(data)]
        homeScore == OrElse(latest.homeScore, NumberOrZero(home.score))
        awayScore == OrElse(latest.awayScore, NumberOrZero(away.score))
        diff == homeScore - awayScore
        absDiff == Abs(diff)
        leader == IF diff > 0 THEN home.name ELSE away.name
        minutes == ParseIntOrZero(BeforeColon(clk))
        earlier == data[(Len(data) \div 2) + 1]
        earlierDiff == earlier.homeScore - earlier.awayScore
    IN  IF per >= 4 /\ minutes <= 3 /\ absDiff <= 5
        THEN Sentence("GameSituation", "crunch time", leader, absDiff, <<>>)
        ELSE IF per >= 4 /\ minutes <= 5 /\ absDiff <= 10
        THEN Sentence("GameSituation", "holds lead", leader, absDiff, <<>>)
        ELSE IF absDiff >= 25
        THEN Sentence("GameSituation", "commanding lead", leader, absDiff, <<>>)
        ELSE IF absDiff >= 15
        THEN Sentence("GameSituation", "in control", leader, absDiff, <<>>)
        ELSE IF absDiff <= 3
        THEN Sentence("GameSituation", "tight", "", absDiff, <<>>)
        ELSE IF Len(data) >= minComebackPoints /\ diff > 0 /\ earlierDiff > 0
                /\ earlierDiff - diff >= 10
        THEN Sentence("GameSituation", "comeback", away.name, absDiff, <<earlierDiff>>)
        ELSE IF Len(data) >= minComebackPoints /\ diff < 0 /\ earlierDiff < 0
                /\ Abs(earlierDiff) - absDiff >= 10
        THEN Sentence("GameSituation", "comeback", home.name, absDiff, <<Abs(earlierDiff)>>)
        ELSE IF absDiff <= 3
        THEN Sentence("GameSituation", "tight", "", absDiff, <<>>)
        ELSE NoSentence

\* lines 195-247
GetGameSituation(data, per, clk, home, away) ==
    IF Len(data) = 0 \/ ~home.present \/ ~away.present THEN NoSentence
    ELSE
    LET latest == data[Len(data)]
        homeScore == OrElse(latest.homeScore, NumberOrZero(home.score))
        awayScore == OrElse(latest.awayScore, NumberOrZero(away.score))
        diff == homeScore - awayScore
        absDiff == Abs(diff)
        leader == IF diff > 0 THEN home.name ELSE away.name
        minutes == ParseIntOrZero(BeforeColon(clk))
        earlier == data[(Len(data) \div 2) + 1]
        earlierDiff == earlier.homeScore - earlier.awayScore
    IN  IF per >= 4 /\ minutes <= 3 /\ absDiff <= 5
        THEN Sentence("GameSituation", "crunch time", leader, absDiff, <<>>)
        ELSE IF per >= 4 /\ minutes <= 5 /\ absDiff <= 10
        THEN Sentence("GameSituation", "holds lead", leader, absDiff, <<>>)
        ELSE IF absDiff >= 25
        THEN Sentence("GameSituation", "commanding lead", leader, absDiff, <<>>)
        ELSE IF absDiff >= 15
        THEN Sentence("GameSituation", "in control", leader, absDiff, <<>>)
        ELSE IF Len(data) >= minComebackPoints /\ diff > 0 /\ earlierDiff > 0
                /\ earlierDiff - diff >= 10
        THEN Sentence("GameSituation", "comeback", away.name, absDiff, <<earlierDiff>>)
        ELSE IF Len(data) >= minComebackPoints /\ diff < 0 /\ earlierDiff < 0
                /\ Abs(earlierDiff) - absDiff >= 10
        THEN Sentence("GameSituation", "comeback", home.name, absDiff, <<Abs(earlierDiff)>>)
        ELSE IF absDiff <= 3
        THEN Sentence("GameSituation", "tight", "", absDiff, <<>>)
        ELSE NoSentence

Push(sentences, s) == IF s.detector = "none" THEN sentences ELSE Append(sentences, s)

LeadChangeSentence_FromTwo(data) ==
    IF Len(data) < minLeadChangePoints THEN NoSentence
    ELSE LET leadChanges == DetectLeadChanges(data)
         IN  IF leadChanges >= 5
             THEN Sentence("LeadChanges", "back-and-forth", "", leadChanges, <<>>)
             ELSE IF leadChanges >= 2
             THEN Sentence("LeadChanges", "changed hands", "", leadChanges, <<>>)
             ELSE NoSentence

\* lines 282-290
LeadChangeSentence(data) ==
    IF Len(data) < minLeadChangePoints THEN NoSentence
    ELSE LET leadChanges == DetectLeadChanges(data)
         IN  IF leadChanges >= 5
             THEN Sentence("LeadChanges", "back-and-forth", "", leadChanges, <<>>)
             ELSE IF leadChanges >= 3
             THEN Sentence("LeadChanges", "changed hands", "", leadChanges, <<>>)
             ELSE NoSentence

\* line 301: swing.play.text || `a ${swingTeam} play`
SwingText(play, home, away) ==
    IF play.text # <<>> THEN play.text ELSE <<"a", GetTeamForPlay(play, home, away), "play">>

\* lines 296-303
SwingSentence_Always(sentences, data, home, away) ==
    LET recent == LastPoints(data, swingWindow)
        swing == FindBiggestSwing(recent)
    IN  IF swing[1] = 0 THEN NoSentence
        ELSE Sentence("BiggestSwing", "swing",
                      GetTeamForPlay(recent[swing[1]], home, away), swing[2],
                      SwingText(recent[swing[1]], home, away))

SwingSentence(sentences, data, home, away) ==
    IF Len(sentences) >= maxSwingSentences THEN NoSentence
    ELSE LET recent == LastPoints(data, swingWindow)
             swing == FindBiggestSwing(recent)
         IN  IF swing[1] = 0 THEN NoSentence
             ELSE Sentence("BiggestSwing", "swing",
                           GetTeamForPlay(recent[swing[1]], home, away), swing[2],
                           SwingText(recent[swing[1]], home, away))

\* lines 305-311
Fallback_None(per) == "sentences"

Fallback(per) == IF per <= 1 THEN "early stages" ELSE "balanced"

\* lines 249-314
GenerateGameNarrative(defined, data, home, away, per, clk) ==
    IF ~defined \/ Len(data) < minNarrativePoints
    THEN [kind |-> "gathering", sentences |-> <<>>, trend |-> NoTrend]
    ELSE
    LET trend == DetectMomentumTrend(data)
        s1 == Push(<<>>, GetGameSituation(data, per, clk, home, away))
        s2 == Push(s1, TrendSentence(trend, home, away))
        s3 == Push(s2, DetectScoringRuns(data, home, away))
        s4 == Push(s3, LeadChangeSentence(data))
        s5 == Push(s4, FindKeyPlays(data, home, away))
        s6 == Push(s5, SwingSentence(s5, data, home, away))
    IN  [kind |-> IF Len(s6) = 0 THEN Fallback(per) ELSE "sentences",
         sentences |-> s6, trend |-> trend]

minWindowPoints == 3
minStablePoints == 5

PatThree == <<"t", "h", "r", "e", "e">>

\* Number.prototype.toFixed(0) of a value >= 0 held in tenths: the nearest
\* integer, the larger one at a tie
ToFixed0(tenths) == (tenths + 5) \div 10

\* lines 365-373: how one high-impact play of the window is described
DescribeWindowPlay(play) ==
    LET text == ToLowerCase(play.text)
    IN  IF Includes(text, PatBlock) THEN "block"
        ELSE IF Includes(text, PatSteal) THEN "steal"
        ELSE IF Includes(text, PatDunk) THEN "dunk"
        ELSE IF Includes(text, PatThree) \/ Includes(text, Pat3pt) THEN "three"
        ELSE "big play"

\* lines 334-347: the momentum change over the window, 20 and 8 points in tenths
MomentumChangeSentence(data, home, away) ==
    LET momentumChange == data[Len(data)].momentum - data[1].momentum
        absMomentumChange == Abs(momentumChange)
        named == IF momentumChange > 0
                 THEN (IF home.present THEN home.name ELSE "")
                 ELSE (IF away.present THEN away.name ELSE "")
        team == IF named # "" THEN named ELSE "one team"
    IN  IF absMomentumChange > 200
        THEN Sentence("MomentumChange", "major swing", team, ToFixed0(absMomentumChange),
                      <<>>)
        ELSE IF absMomentumChange > 80
        THEN Sentence("MomentumChange", "moderate edge", team, 0, <<>>)
        ELSE Sentence("MomentumChange", "even stretch", "", 0, <<>>)

\* lines 349-359
ScoringSentence(data, home, away) ==
    LET homeScored == data[Len(data)].homeScore - data[1].homeScore
        awayScored == data[Len(data)].awayScore - data[1].awayScore
    IN  IF homeScored > 0 \/ awayScored > 0
        THEN Sentence("Scoring", "scoring", "", 0,
                      <<IF home.present /\ home.name # "" THEN home.name ELSE "Home",
                        homeScored,
                        IF away.present /\ away.name # "" THEN away.name ELSE "Away",
                        awayScored>>)
        ELSE NoSentence

\* lines 361-375
KeyMomentsSentence(data, home, away) ==
    LET highImpact == SelectSeq(data, LAMBDA p : Abs(p.rawImpact) >= 6)
        shown == SubSeq(highImpact, 1, Min(3, Len(highImpact)))
    IN  IF Len(highImpact) > 0
        THEN Sentence("KeyMoments", "key moments", "", Len(shown),
                      [k \in 1..Len(shown) |->
                          <<GetTeamForPlay(shown[k], home, away),
                            DescribeWindowPlay(shown[k])>>])
        ELSE NoSentence

VolatilitySentence_AtLeastFifteen(data) ==
    LET changes == SumChanges(data, 2)
        n == Len(data)
    IN  IF changes >= 150 * (n - 1)
        THEN Sentence("Volatility", "volatile", "", 0, <<>>)
        ELSE IF changes < 30 * (n - 1) /\ n > minStablePoints
        THEN Sentence("Volatility", "stable", "", 0, <<>>)
        ELSE NoSentence

\* lines 377-389: the mean of the n - 1 deltas against 15 and 3 points
VolatilitySentence(data) ==
    LET changes == SumChanges(data, 2)
        n == Len(data)
    IN  IF changes > 150 * (n - 1)
        THEN Sentence("Volatility", "volatile", "", 0, <<>>)
        ELSE IF changes < 30 * (n - 1) /\ n > minStablePoints
        THEN Sentence("Volatility", "stable", "", 0, <<>>)
        ELSE NoSentence

\* lines 316-392; the time range the first sentence prints is not modelled, and
\* fullData, start and end are not read by the function
GenerateTimeWindowNarrative(defined, data, home, away) ==
    IF ~defined \/ Len(data) < minWindowPoints
    THEN [kind |-> "not enough", sentences |-> <<>>, trend |-> NoTrend]
    ELSE
    LET s1 == Push(<<>>, MomentumChangeSentence(data, home, away))
        s2 == Push(s1, ScoringSentence(data, home, away))
        s3 == Push(s2, KeyMomentsSentence(data, home, away))
        s4 == Push(s3, VolatilitySentence(data))
    IN  [kind |-> "window", sentences |-> s4, trend |-> NoTrend]

-----------------------------------------------------------------------------
(* Inputs of the narrative engine *)

\* longest window handed to the time-window narrative
MaxWindow == 10

\* longest trace handed to the narrative engine
MaxTrace == 30

TeamInfo(id, name, score) == [present |-> TRUE, id |-> id, name |-> name, score |-> score]

Lakers(score) == TeamInfo("LAL", "Lakers", score)
Celtics(score) == TeamInfo("BOS", "Celtics", score)

\* a score as the header carries it: a string of digits
RECURSIVE ScoreString(_)
ScoreString(n) ==
    IF n < 10 THEN <<Digit(n)>> ELSE ScoreString(n \div 10) \o <<Digit(n % 10)>>

\* momentum of point j of n, tenths: a level reached at the last point, a slope per
\* point and a zigzag around it, kept within [-100, 100]
MomentumAt(shape, j, n) ==
    Max(-1000, Min(1000, shape.base + shape.step * (j - n)
                         + (IF j % 2 = 0 THEN shape.zig ELSE -shape.zig)))

MomentumShape(base, step, zig) == [base |-> base, step |-> step, zig |-> zig]

Calm == MomentumShape(0, 0, 0)

\* the scores of point j of n
\*   lead:  home ahead by a throughout (away ahead when a < 0)
\*   trim:  the lead is a up to the middle sample and b after it
\*   flip:  the lead changes side every a points, through a tie when b = 1
\*   dip:   home ahead by a, but level at every b-th sample
\*   hold:  the score stands still but for one basket at the middle sample: the
\*          home lead is a up to it and b after it
\*   blank: the samples carry no score
ScoreAt(shape, j, n) ==
    LET diff == CASE shape.kind = "lead" -> shape.a
                  [] shape.kind \in {"trim", "hold"} ->
                        IF j <= (n \div 2) + 1 THEN shape.a ELSE shape.b
                  [] shape.kind = "flip" ->
                        IF shape.b = 1 /\ j % shape.a = 0 THEN 0
                        ELSE IF (j \div shape.a) % 2 = 0 THEN 2 ELSE -2
                  [] shape.kind = "dip" -> IF j % shape.b = 0 THEN 0 ELSE shape.a
                  [] OTHER -> 0
        floor == IF shape.kind = "blank" THEN 0
                 ELSE IF shape.kind = "hold" THEN 40 ELSE 40 + j
    IN  [home |-> floor + Max(diff, 0), away |-> floor + Max(-diff, 0)]

ScoreShape(kind, a, b) == [kind |-> kind, a |-> a, b |-> b]

MildLead == ScoreShape("lead", 7, 0)

\* the plays behind the points
\*   quiet:  no play moves the momentum (rawImpact 0)
\*   small:  every play has rawImpact 2, sides alternating
\*   run:    the last a points are baskets of side t (rawImpact 3), with b baskets
\*           of the other side before them
\*   keys:   the last a points are high-impact plays of side t (block, steal, dunk
\*           by turns)
\*   big:    the last point is an undescribed play of rawImpact a
\*   three:  the last point is a three point jumper of rawImpact 6
ImpactAt(shape, j, n) ==
    LET side == IF j % 2 = 0 THEN "LAL" ELSE "BOS"
        other(t) == IF t = "LAL" THEN "BOS" ELSE "LAL"
    IN  CASE shape.kind = "small" ->
                [raw |-> 2, team |-> side, text |-> TxtRebound, type |-> <<>>]
          [] shape.kind = "run" /\ j > n - shape.a ->
                [raw |-> 3, team |-> shape.t, text |-> TxtAlleyOopLayup, type |-> <<>>]
          [] shape.kind = "run" /\ j > n - shape.a - shape.b ->
                [raw |-> 3, team |-> other(shape.t), text |-> TxtAlleyOopLayup,
                 type |-> <<>>]
          [] shape.kind = "keys" /\ j > n - shape.a ->
                CASE j % 3 = 0 -> [raw |-> 6, team |-> shape.t, text |-> TxtBlocksShot,
                                   type |-> TxtTypeBlockShot]
                  [] j % 3 = 1 -> [raw |-> -6, team |-> shape.t, text |-> TxtBadPassSteal,
                                   type |-> TxtTypeSteal]
                  [] OTHER -> [raw |-> 7, team |-> shape.t, text |-> TxtFastBreakDunkCaps,
                               type |-> <<>>]
          [] shape.kind = "big" /\ j = n ->
[raw |-> shape.a, team |-> shape.t, text |-> TxtLayupFoul,
                 type |-> TxtTypeJumpShot]
          [] shape.kind = "three" /\ j = n ->
                [raw |-> 6, team |-> shape.t, text |-> TxtThreePointJumper, type |-> <<>>]
          [] OTHER -> [raw |-> 0, team |-> side, text |-> TxtRebound, type |-> <<>>]

ImpactShape(kind, t, a, b) == [kind |-> kind, t |-> t, a |-> a, b |-> b]

Quiet == ImpactShape("quiet", "LAL", 0, 0)

NarrativeTrace(n, momentum, score, impact) ==
    [j \in 1..n |->
        LET play == ImpactAt(impact, j, n)
            pts == ScoreAt(score, j, n)
        IN  Point(MomentumAt(momentum, j, n), play.raw, play.team, play.text, play.type,
                  pts.home, pts.away)]

\* clocks the scoreboard shows: minutes and seconds, and seconds with tenths in
\* the last minute; the empty string before the first poll
Clocks ==
    {<<"1", "2", ":", "0", "0">>, <<"5", ":", "3", "0">>, <<"5", ":", "0", "0">>,
     <<"3", ":", "4", "5">>, <<"3", ":", "0", "0">>, <<"2", ":", "5", "9">>,
     <<"4", "5", ".", "3">>, <<"2", ".", "1">>, <<>>}

Periods == {1, 2, 4, 5}

Leads == {0, 1, 3, 4, 5, 6, 10, 11, 14, 15, 24, 25, 30}

SituationScores ==
    {ScoreShape("lead", d, 0) : d \in Leads \cup {-d : d \in Leads}}
        \cup {ScoreShape("trim", a, b) : a \in {18, -18, 14, -14}, b \in {4, -4, 8, -8}}
        \cup {ScoreShape("blank", 0, 0)}

\* both teams, with the header score of the latest sample (or a score of its own
\* when the samples carry none); no team yet; only the home team yet
TeamPairs(trace, headerHome, headerAway) ==
    LET latest == trace[Len(trace)]
        home == Lakers(ScoreString(OrElse(latest.homeScore, headerHome)))
        away == Celtics(ScoreString(OrElse(latest.awayScore, headerAway)))
    IN  {<<home, away>>, <<NoTeamInfo, NoTeamInfo>>, <<home, NoTeamInfo>>}

FiveMinutes == <<"5", ":", "0", "0">>

TrendLevels == {0, 80, 85, 120, 125, 300, 305, 500}

TrendShapes ==
    {MomentumShape(sign * base, step, zig) :
        sign \in {1, -1}, base \in TrendLevels, step \in {0, 5, -5, 40},
        zig \in {0, 75, 80}}

ComboImpacts ==
    {Quiet, ImpactShape("small", "LAL", 0, 0),
     ImpactShape("run", "LAL", 4, 1), ImpactShape("run", "BOS", 5, 2),
     ImpactShape("run", "LAL", 4, 2), ImpactShape("run", "BOS", 3, 0),
     ImpactShape("keys", "LAL", 1, 0), ImpactShape("keys", "BOS", 6, 0),
     ImpactShape("big", "BOS", 8, 0), ImpactShape("big", "LAL", 6, 0),
     ImpactShape("three", "BOS", 0, 0)}

ComboScores ==
    {MildLead, ScoreShape("lead", 2, 0), ScoreShape("lead", -30, 0),
     ScoreShape("flip", 7, 0), ScoreShape("flip", 5, 0), ScoreShape("flip", 4, 1),
     ScoreShape("flip", 3, 1)}

ComboShapes ==
    {Calm, MomentumShape(400, 0, 80), MomentumShape(-200, -10, 0), MomentumShape(0, 0, 80)}

-----------------------------------------------------------------------------
(* The narrative engine called on one input *)

InitContext(defined, trace, teams, per, clk) ==
    /\ momentumData = trace
    /\ momentumDefined = defined
    /\ homeTeam = teams[1]
    /\ awayTeam = teams[2]
    /\ period = per
    /\ clock = clk

\* too short to analyse, or no trace at all
InitShort ==
    \/ \E d \in BOOLEAN, n \in 0..(minNarrativePoints - 1), per \in Periods :
          InitContext(d, NarrativeTrace(n, Calm, MildLead, Quiet),
                      <<Lakers(<<>>), Celtics(<<>>)>>, per, FiveMinutes)
    \/ \E n \in {0, MaxTrace} :
          InitContext(FALSE, NarrativeTrace(n, Calm, MildLead, Quiet),
                      <<NoTeamInfo, NoTeamInfo>>, 0, <<>>)

\* score situations under every period, and under every clock late in the game
InitSituation ==
    \E n \in {minNarrativePoints, minComebackPoints}, score \in SituationScores :
        LET trace == NarrativeTrace(n, Calm, score, Quiet)
        IN  \E teams \in TeamPairs(trace, 52, 47), per \in Periods :
                \E clk \in (IF per >= 4 THEN Clocks ELSE {FiveMinutes}) :
                    InitContext(TRUE, trace, teams, per, clk)

\* momentum levels, slopes and zigzags over a score that says nothing
InitTrend ==
    \E n \in {5, 6, 7, 9, 10, 11}, shape \in TrendShapes,
       impact \in {Quiet, ImpactShape("small", "LAL", 0, 0)} :
        LET trace == NarrativeTrace(n, shape, MildLead, impact)
        IN  \E teams \in {<<Lakers(<<>>), Celtics(<<>>)>>, <<NoTeamInfo, NoTeamInfo>>} :
                InitContext(TRUE, trace, teams, 2, FiveMinutes)

\* detectors firing together
InitCombo ==
    \E n \in {8, swingWindow + 1, MaxTrace - 1, MaxTrace}, shape \in ComboShapes,
       score \in ComboScores, impact \in ComboImpacts :
        LET trace == NarrativeTrace(n, shape, score, impact)
        IN  \E teams \in {<<Lakers(<<>>), Celtics(<<>>)>>, <<NoTeamInfo, NoTeamInfo>>},
               per \in {1, 4} :
                InitContext(TRUE, trace, teams, per, <<"2", ":", "5", "9">>)

\* baskets of one side after baskets of the other, on traces from the shortest
\* the detectors see to ones longer than the window of the run detector
RunImpacts ==
    {ImpactShape("run", t, a, b) :
        t \in {"LAL", "BOS"}, a \in {2, 3, 4, 5, 9}, b \in {0, 1, 2, 3, 8, 9}}

InitRuns ==
    \E n \in {5, 7, 8, 9, 10, 13}, impact \in RunImpacts :
        LET trace == NarrativeTrace(n, Calm, MildLead, impact)
        IN  \E teams \in {<<Lakers(<<>>), Celtics(<<>>)>>, <<NoTeamInfo, NoTeamInfo>>,
                          <<Lakers(<<>>), NoTeamInfo>>} :
                InitContext(TRUE, trace, teams, 2, FiveMinutes)

\* leads that change sides from never to every third sample, with and without a
\* tie in between, on traces around the length the lead-change detector asks for
LeadScores ==
    {ScoreShape("flip", a, b) : a \in {3, 5, 6, 7, 10, 11, 15}, b \in {0, 1}}
        \cup {ScoreShape("dip", d, 4) : d \in {2, -2}}
        \cup {ScoreShape("lead", 0, 0)}

InitLeads ==
    \E n \in {minLeadChangePoints - 1, minLeadChangePoints, minLeadChangePoints + 3},
       score \in LeadScores :
        LET trace == NarrativeTrace(n, Calm, score, Quiet)
        IN  \E teams \in {<<Lakers(<<>>), Celtics(<<>>)>>, <<NoTeamInfo, NoTeamInfo>>} :
                InitContext(TRUE, trace, teams, 2, FiveMinutes)

\* a trace that is level but for two steps: one of s1 tenths a samples before
\* the last, made by a Lakers play of rawImpact r1, and one of s2 tenths b
\* samples before the last, made by a Celtics play of rawImpact r2.  A play
\* without text has rawImpact 0 (calculatePlayImpact), so a step with rawImpact 0
\* is given no text.
SwingTrace(n, a, s1, r1, b, s2, r2, score) ==
    [j \in 1..n |->
        LET m == (IF j >= n - a THEN s1 ELSE 0) + (IF j >= n - b THEN s2 ELSE 0)
            pts == ScoreAt(score, j, n)
        IN  IF j = n - a
            THEN Point(m, r1, "LAL", IF r1 = 0 THEN <<>> ELSE TxtFastBreakDunk, <<>>,
                       pts.home, pts.away)
            ELSE IF j = n - b
            THEN Point(m, r2, "BOS", IF r2 = 0 THEN <<>> ELSE TxtThreePointJumper, <<>>,
                       pts.home, pts.away)
            ELSE Point(m, 0, IF j % 2 = 0 THEN "LAL" ELSE "BOS", TxtRebound, <<>>,
                       pts.home, pts.away)]

InitSwings ==
    \E n \in {5, swingWindow, swingWindow + 5},
       a \in {1, swingWindow - 2, swingWindow - 1, swingWindow}, b \in {0, 2},
       s1 \in {50, 55, 200}, s2 \in {-60, 60}, r1 \in {0, 2, -5}, r2 \in {0, 2} :
        /\ b < a
        /\ a < n
        /\ \E score \in {MildLead, ScoreShape("lead", -30, 0)},
              teams \in {<<Lakers(<<>>), Celtics(<<>>)>>, <<NoTeamInfo, NoTeamInfo>>} :
                InitContext(TRUE, SwingTrace(n, a, s1, r1, b, s2, r2, score), teams, 2,
                            FiveMinutes)

\* leads that shrink, grow or change sides after the middle sample, on traces
\* around the length the comeback rule asks for
InitComeback ==
    \E n \in {minComebackPoints - 1, minComebackPoints, minComebackPoints + 1},
       a \in {12, 13, 14, -12, -13, -14}, b \in {0, 3, 4, -3, -4},
       late \in BOOLEAN :
        LET trace == NarrativeTrace(n, Calm, ScoreShape("trim", a, b), Quiet)
        IN  \E teams \in TeamPairs(trace, 52, 47) :
                InitContext(TRUE, trace, teams, IF late THEN 4 ELSE 2,
                            IF late THEN <<"2", ":", "5", "9">> ELSE FiveMinutes)

InitNarrative ==
    /\ InitServerIdle
    /\ (InitShort \/ InitSituation \/ InitTrend \/ InitCombo \/ InitRuns
        \/ InitLeads \/ InitSwings \/ InitComeback)
    /\ selectedTimeWindow = NoWindow
    /\ dna = DnaIdle
    /\ chart = ChartIdle
    /\ narrative = NoNarrative
    /\ app = AppIdle

Generate ==
    /\ narrative.kind = "none"
    /\ narrative' = GenerateGameNarrative(momentumDefined, momentumData, homeTeam, awayTeam,
                                          period, clock)
    /\ UNCHANGED <<momentumData, momentumDefined, selectedTimeWindow, homeTeam, awayTeam,
                   period, clock, dna, chart>>
    /\ UNCHANGED <<serverVars, app>>

NextNarrative == Generate

SpecNarrative == InitNarrative /\ [][NextNarrative]_vars


-----------------------------------------------------------------------------
(* Properties of the narrative engine *)

NarrativeRan == narrative.kind # "none"
DetectorsRan == narrative.kind \in {"sentences", "early stages", "balanced"}
BothTeams == homeTeam.present /\ awayTeam.present

SentencesOf(detector) == SelectSeq(narrative.sentences, LAMBDA s : s.detector = detector)

SituationKind ==
    IF SentencesOf("GameSituation") = <<>> THEN "none"
    ELSE SentencesOf("GameSituation")[1].kind

\* the score differential of the latest sample (the header score where the sample
\* carries none)
LatestDiff ==
    LET latest == momentumData[Len(momentumData)]
    IN  OrElse(latest.homeScore, IF homeTeam.present THEN NumberOrZero(homeTeam.score) ELSE 0)
        - OrElse(latest.awayScore, IF awayTeam.present THEN NumberOrZero(awayTeam.score) ELSE 0)

\* C15: the narrative is never empty: a missing trace or one of fewer than 5
\* samples gives the gathering-data message; a longer trace on which no detector
\* contributes gives the fallback of its period (early stages when period <= 1,
\* balanced otherwise).
C15_NeverEmpty ==
    NarrativeRan =>
        /\ narrative.kind = "sentences" => Len(narrative.sentences) >= 1
        /\ (~momentumDefined \/ Len(momentumData) < 5) <=> narrative.kind = "gathering"
        /\ (momentumDefined /\ Len(momentumData) >= 5 /\ narrative.sentences = <<>>) =>
              narrative.kind = (IF period <= 1 THEN "early stages" ELSE "balanced")

\* a trace of 5 or more samples on which nothing fired, after the first period
C15_Witness ==
    /\ NarrativeRan
    /\ Len(momentumData) >= 5
    /\ period > 1
    /\ narrative.kind = "balanced"

LateKinds == {"crunch time", "holds lead"}

\* first match in the order crunch-time, clock-limited lead, blowout, comfortable
\* lead, comeback, tight game, read off the sentence and the score differential
FirstMatchWins ==
    LET k == SituationKind
        d == Abs(LatestDiff)
    IN  /\ Len(SentencesOf("GameSituation")) <= 1
        /\ k = "crunch time" => period >= 4 /\ d <= 5
        /\ k = "holds lead" => period >= 4 /\ d <= 10
        /\ k \notin LateKinds =>
              /\ d >= 25 => k = "commanding lead"
              /\ (d >= 15 /\ d < 25) => k = "in control"
              /\ d < 15 => k \in {"comeback", "tight", "none"}
              /\ k = "tight" => d <= 3
              /\ d <= 3 => k \in {"comeback", "tight"}
        /\ Abs(LatestDiff) = 30 => k = "commanding lead"

DetectorOrder ==
    <<"GameSituation", "MomentumTrend", "ScoringRuns", "LeadChanges", "KeyPlays",
      "BiggestSwing">>

Rank(detector) == CHOOSE r \in 1..Len(DetectorOrder) : DetectorOrder[r] = detector

\* C17: the sentences appear in the order GameSituation, MomentumTrend,
\* ScoringRuns, LeadChanges, KeyPlays, BiggestSwing, at most one per detector;
\* BiggestSwing only follows fewer than 3 sentences; never more than 5 sentences.
C17_FixedDetectorOrder ==
    NarrativeRan =>
        LET s == narrative.sentences
        IN  /\ \A k \in 1..Len(s) : s[k].detector \in {DetectorOrder[r] : r \in 1..6}
            /\ \A k \in 1..(Len(s) - 1) : Rank(s[k].detector) < Rank(s[k + 1].detector)
            /\ \A k \in 1..Len(s) : s[k].detector = "BiggestSwing" => k <= 3
            /\ Len(s) <= 5

\* all five of the first detectors contributed
C17_Witness ==
    /\ NarrativeRan
    /\ Len(narrative.sentences) = 5
    /\ narrative.sentences[5].detector = "KeyPlays"

\* clock.split(':')[1]
RECURSIVE AfterColon(_)
AfterColon(s) ==
    IF s = <<>> THEN <<>> ELSE IF Head(s) = ":" THEN Tail(s) ELSE AfterColon(Tail(s))

\* the time a scoreboard clock stands for, in whole seconds: "m:ss", or "s.t" in
\* the last minute
ClockSeconds(clk) ==
    IF \E k \in 1..Len(clk) : clk[k] = ":"
    THEN 60 * ParseIntOrZero(BeforeColon(clk)) + ParseIntOrZero(AfterColon(clk))
    ELSE ParseIntOrZero(clk)

\* C18: with both teams known and a clock on the scoreboard, the crunch-time
\* sentence is emitted exactly when period >= 4, at most 3 minutes remain and
\* |diff| <= 5; the clock-limited-lead sentence exactly when crunch-time does not
\* apply, period >= 4, at most 5 minutes remain and |diff| <= 10.
C18_ClockRules ==
    (DetectorsRan /\ BothTeams /\ clock # <<>>) =>
        LET d == Abs(LatestDiff)
            crunch == period >= 4 /\ ClockSeconds(clock) <= 3 * 60 /\ d <= 5
            limited == ~crunch /\ period >= 4 /\ ClockSeconds(clock) <= 5 * 60 /\ d <= 10
        IN  /\ SituationKind = "crunch time" <=> crunch
            /\ SituationKind = "holds lead" <=> limited

-----------------------------------------------------------------------------
(* The series builder called on a list and then on its valid events only *)

InitWithInvalid ==
    /\ engine \in Engines
    /\ InitLocals
    /\ (InitGeneral \/ InitDisorder \/ InitLong)
    /\ ClientIdle

\* the caller keeps the returned trace and calls again after removing the events
\* without a timestamp or a team id from its list
CallWithoutInvalid ==
    /\ pc = "done"
    /\ ~prev.called
    /\ \E k \in DOMAIN plays : ~ValidPlay(plays[k])
    /\ prev' = ThisCall
    /\ plays' = SelectSeq(plays, ValidPlay)
    /\ pc' = "idle"
    /\ UNCHANGED <<engine, playsDefined, homeTeamId, awayTeamId, sortedPlays, i,
                   currentMomentum, rawImpact, decayMultiplier, history>>
    /\ UNCHANGED clientVars

NextWithInvalid == Call \/ SkipPlay \/ FoldPlay \/ Return \/ CallWithoutInvalid

SpecWithInvalid == InitWithInvalid /\ [][NextWithInvalid]_vars

\* C19: events without a timestamp or a team id have no effect on the rest of
\* the trace: the call on a list returns the same samples, with the same
\* momentum values, as the call on that list with those events removed.
C19_InvalidEventsNoEffect ==
    (pc = "done" /\ prev.called
        /\ plays = SelectSeq(prev.plays, HasTimestampAndTeam)) =>
            /\ Len(history) = Len(prev.trace)
            /\ \A k \in 1..Len(history) : history[k] = prev.trace[k]


-----------------------------------------------------------------------------
(* The scoring-run detector *)

\* plays with rawImpact > 2 of the team with this record among the last 10
\* samples; a team whose record is not loaded has none
ScoringPlaysOf(team) ==
    LET n == Len(momentumData)
    IN  Cardinality({k \in 1..n :
            /\ k > n - 10
            /\ momentumData[k].rawImpact > 2
            /\ team.present
            /\ momentumData[k].teamId = team.id})

RunOf(team, other) ==
    /\ ScoringPlaysOf(team) >= 4
    /\ ScoringPlaysOf(team) > 2 * ScoringPlaysOf(other)

RunRule ==
    LET s == SentencesOf("ScoringRuns")
    IN  /\ Len(s) <= 1
        /\ Len(s) = 1 <=> (RunOf(homeTeam, awayTeam) \/ RunOf(awayTeam, homeTeam))
        /\ (Len(s) = 1 /\ RunOf(homeTeam, awayTeam)) =>
              s[1].team = homeTeam.name /\ s[1].count = ScoringPlaysOf(homeTeam)
        /\ (Len(s) = 1 /\ RunOf(awayTeam, homeTeam)) =>
              s[1].team = awayTeam.name /\ s[1].count = ScoringPlaysOf(awayTeam)

\* C21 as stated: on every trace of 5 or more samples ScoringRuns emits a
\* sentence exactly when, over the last 10 samples, one team has at least 4
\* plays with rawImpact > 2 and more than double the other team's count; it
\* never emits for both teams.
C21_RunsFromFiveSamples == DetectorsRan => RunRule

\* C21 amended: the same on every trace of 8 or more samples; on a trace of 5
\* to 7 samples ScoringRuns emits nothing.
C21_RunsFromEightSamples ==
    DetectorsRan =>
        /\ Len(momentumData) >= 8 => RunRule
        /\ Len(momentumData) < 8 => SentencesOf("ScoringRuns") = <<>>

\* five away baskets against two of the home team in a trace of 8 samples: the
\* away team is on a run of 5
C21_Witness ==
    /\ DetectorsRan
    /\ Len(momentumData) = 8
    /\ ScoringPlaysOf(awayTeam) = 5
    /\ ScoringPlaysOf(homeTeam) = 2
    /\ SentencesOf("ScoringRuns")
          = <<Sentence("ScoringRuns", "run", awayTeam.name, 5, <<>>)>>


-----------------------------------------------------------------------------
(* The lead-change detector *)

Led(k) == momentumData[k].homeScore # momentumData[k].awayScore

HomeLed(k) == momentumData[k].homeScore > momentumData[k].awayScore

\* the samples at which the lead is with the other team than at the nearest
\* earlier sample that was not tied
LeadChangesCounted ==
    Cardinality({k \in 2..Len(momentumData) :
        /\ Led(k)
        /\ \E j \in 1..(k - 1) :
              /\ Led(j)
              /\ HomeLed(j) # HomeLed(k)
              /\ \A m \in (j + 1)..(k - 1) : ~Led(m)})

\* C22: LeadChanges contributes only when the trace has at least 30 samples; it
\* counts the transitions between home-led and away-led samples, tied samples
\* being neither a state nor a transition; it emits when the count is >= 3 and
\* uses the stronger wording when the count is >= 5.
C22_LeadChanges ==
    DetectorsRan =>
        LET s == SentencesOf("LeadChanges")
            count == LeadChangesCounted
        IN  /\ Len(s) <= 1
            /\ Len(s) = 1 <=> (Len(momentumData) >= 30 /\ count >= 3)
            /\ Len(s) = 1 =>
                  /\ s[1].count = count
                  /\ s[1].kind = (IF count >= 5 THEN "back-and-forth" ELSE "changed hands")

\* 30 samples, the lead going to the other team through a tie five times
C22_Witness ==
    /\ DetectorsRan
    /\ Len(momentumData) = 30
    /\ \E k \in 2..29 : ~Led(k) /\ Led(k - 1) /\ Led(k + 1) /\ HomeLed(k - 1) # HomeLed(k + 1)
    /\ LeadChangesCounted = 5
    /\ SentencesOf("LeadChanges")
          = <<Sentence("LeadChanges", "back-and-forth", "", 5, <<>>)>>


-----------------------------------------------------------------------------
(* The biggest-swing detector *)

SwingSamples == LastPoints(momentumData, 20)

\* the samples of the window that have a predecessor in it and a play with
\* nonzero rawImpact
SwingCandidates ==
    {k \in 2..Len(SwingSamples) : SwingSamples[k].rawImpact # 0}

SwingDelta(k) == Abs(SwingSamples[k].momentum - SwingSamples[k - 1].momentum)

\* the largest delta of a candidate, in tenths (0 when there is none)
LargestSwing ==
    IF SwingCandidates = {} THEN 0
    ELSE CHOOSE d \in {SwingDelta(k) : k \in SwingCandidates} :
            \A k \in SwingCandidates : SwingDelta(k) <= d

SentencesBeforeSwing ==
    Len(SelectSeq(narrative.sentences, LAMBDA s : s.detector # "BiggestSwing"))

\* C23: BiggestSwing looks at the last 20 samples only, takes the play with
\* nonzero rawImpact whose momentum differs most from the sample just before
\* it, and emits a sentence, describing that play by its own text, exactly when
\* that delta is > 5 and fewer than 3 sentences were produced before it.
C23_BiggestSwing ==
    DetectorsRan =>
        LET s == SentencesOf("BiggestSwing")
        IN  /\ Len(s) <= 1
            /\ Len(s) = 1 <=> (LargestSwing > 5 * 10 /\ SentencesBeforeSwing < 3)
            /\ Len(s) = 1 =>
                  /\ s[1].count = LargestSwing
                  /\ \E k \in SwingCandidates :
                        /\ SwingDelta(k) = LargestSwing
                        /\ s[1].detail = SwingSamples[k].text

\* a 25-sample trace whose largest step (20 points) lies outside the window, or
\* on its first sample, or was made by no play: the sentence describes the
\* smaller step of 6 points inside the window
C23_Witness ==
    /\ DetectorsRan
    /\ Len(momentumData) = 25
    /\ \E k \in 2..25 : Abs(momentumData[k].momentum - momentumData[k - 1].momentum) = 200
    /\ LargestSwing = 60
    /\ Len(SentencesOf("BiggestSwing")) = 1
    /\ SentencesOf("BiggestSwing")[1].detail = TxtThreePointJumper


-----------------------------------------------------------------------------
(* The comeback rule of the game situation *)

\* the score differential at the 50th-percentile index of the trace
EarlierDiff ==
    LET earlier == momentumData[(Len(momentumData) \div 2) + 1]
    IN  earlier.homeScore - earlier.awayScore

\* the differential moved at least 10 points towards the team that trails now
SwingToTrailer ==
    \/ LatestDiff > 0 /\ EarlierDiff - LatestDiff >= 10
    \/ LatestDiff < 0 /\ LatestDiff - EarlierDiff >= 10

EarlierRules == {"crunch time", "holds lead", "commanding lead", "in control"}

ComebackRule ==
    /\ SituationKind = "comeback" <=> (SituationKind \notin EarlierRules /\ SwingToTrailer)
    /\ SituationKind = "comeback" =>
          LET s == SentencesOf("GameSituation")[1]
          IN  /\ s.team = (IF LatestDiff > 0 THEN awayTeam.name ELSE homeTeam.name)
              /\ s.count = Abs(LatestDiff)
              /\ s.detail = <<Abs(EarlierDiff)>>

\* C24 as stated: the comeback sentence is emitted exactly when no earlier
\* situation rule matched and the current differential, against the one at the
\* 50th-percentile index, has moved at least 10 points towards the trailing
\* team; the team named is the one trailing now.
C24_ComebackOnEveryTrace == DetectorsRan => ComebackRule

\* C24 amended: the same on a trace of 20 or more samples with both team
\* records loaded; on a shorter trace, or with a team record missing, the
\* comeback sentence is never emitted.
C24_ComebackFromTwentySamples ==
    DetectorsRan =>
        /\ (BothTeams /\ Len(momentumData) >= 20) => ComebackRule
        /\ (~BothTeams \/ Len(momentumData) < 20) => SituationKind # "comeback"

\* the home team trailed by 13 at the middle sample and trails by 3 now: the
\* comeback sentence, not the tight-game one, naming the home team
C24_Witness ==
    /\ DetectorsRan
    /\ Len(momentumData) = 20
    /\ EarlierDiff = -13
    /\ LatestDiff = -3
    /\ SituationKind = "comeback"
    /\ SentencesOf("GameSituation")[1].team = homeTeam.name


-----------------------------------------------------------------------------
(* The narrative of a selected time window: generateTimeWindowNarrative *)
(* called on the samples of one window                                  *)

WindowImpacts ==
    {Quiet, ImpactShape("small", "LAL", 0, 0), ImpactShape("keys", "BOS", 4, 0),
     ImpactShape("big", "LAL", 6, 0), ImpactShape("three", "BOS", 0, 0)}

WindowScores ==
    {ScoreShape("hold", 0, b) : b \in {0, 2, 5, -2, -5}}
        \cup {ScoreShape("hold", 2, 5), ScoreShape("hold", -2, -5), MildLead,
              ScoreShape("blank", 0, 0)}

WindowShapes ==
    {MomentumShape(0, step, zig) : step \in {0, 10, 20, -20, 40, -50},
                                  zig \in {0, 10, 15, 75, 80}}

InitWindow ==
    /\ InitServerIdle
    /\ \/ \E n \in 0..(minWindowPoints - 1), d \in BOOLEAN :
             InitContext(d, NarrativeTrace(n, Calm, MildLead, Quiet),
                         <<Lakers(<<>>), Celtics(<<>>)>>, 2, FiveMinutes)
       \/ \E n \in {minWindowPoints, 5, 6, MaxWindow}, shape \in WindowShapes,
             score \in WindowScores, impact \in WindowImpacts :
             \E teams \in {<<Lakers(<<>>), Celtics(<<>>)>>, <<NoTeamInfo, NoTeamInfo>>} :
                InitContext(TRUE, NarrativeTrace(n, shape, score, impact), teams, 2,
                            FiveMinutes)
    /\ selectedTimeWindow = NoWindow
    /\ dna = DnaIdle
    /\ chart = ChartIdle
    /\ narrative = NoNarrative
    /\ app = AppIdle

GenerateWindow ==
    /\ narrative.kind = "none"
    /\ narrative' = GenerateTimeWindowNarrative(momentumDefined, momentumData, homeTeam,
                                                awayTeam)
    /\ UNCHANGED <<momentumData, momentumDefined, selectedTimeWindow, homeTeam, awayTeam,
                   period, clock, dna, chart>>
    /\ UNCHANGED <<serverVars, app>>

NextWindow == GenerateWindow

SpecWindow == InitWindow /\ [][NextWindow]_vars

FirstSample == momentumData[1]
LastSample == momentumData[Len(momentumData)]

\* C25: a window of fewer than 3 samples gives the not-enough-data message;
\* otherwise the output starts with exactly one momentum-change sentence, the
\* score change between the first and the last sample of the window is
\* reported whenever either team scored, and the window is called volatile
\* exactly when the mean absolute consecutive momentum delta is > 15, the
\* threshold of the trend detector.
C25_TimeWindowNarrative ==
    NarrativeRan =>
        /\ narrative.kind = "not enough" <=> (~momentumDefined \/ Len(momentumData) < 3)
        /\ narrative.kind # "not enough" =>
              LET s == narrative.sentences
                  homeScored == LastSample.homeScore - FirstSample.homeScore
                  awayScored == LastSample.awayScore - FirstSample.awayScore
                  deltas == SumChanges(momentumData, 2)
              IN  /\ Len(s) >= 1
                  /\ s[1].detector = "MomentumChange"
                  /\ Len(SentencesOf("MomentumChange")) = 1
                  /\ Len(SentencesOf("Scoring")) = 1 <=> (homeScored > 0 \/ awayScored > 0)
                  /\ Len(SentencesOf("Scoring")) = 1 =>
                        /\ SentencesOf("Scoring")[1].detail[2] = homeScored
                        /\ SentencesOf("Scoring")[1].detail[4] = awayScored
                  /\ (\E k \in 1..Len(s) : s[k].kind = "volatile")
                        <=> deltas > 15 * 10 * (Len(momentumData) - 1)

\* a window in which only the away team scored and whose mean delta is exactly
\* 15: the score change is reported, the window is not called volatile
C25_Witness ==
    /\ NarrativeRan
    /\ Len(momentumData) = 6
    /\ LastSample.homeScore = FirstSample.homeScore
    /\ LastSample.awayScore = FirstSample.awayScore + 5
    /\ SumChanges(momentumData, 2) = 15 * 10 * 5
    /\ Len(SentencesOf("Scoring")) = 1
    /\ \A k \in 1..Len(narrative.sentences) : narrative.sentences[k].kind # "volatile"


-----------------------------------------------------------------------------
(* The team a game-situation sentence names as leading *)

LeaderKinds == {"crunch time", "holds lead", "commanding lead", "in control"}

\* C26: a game-situation sentence that names a team as leading (crunch time,
\* clock-limited lead, blowout, comfortable lead) names the team with strictly
\* more points in the latest sample, and the margin it states is the positive
\* point difference.
C26_LeaderIsAhead ==
    (DetectorsRan /\ SituationKind \in LeaderKinds) =>
        LET s == SentencesOf("GameSituation")[1]
            latest == momentumData[Len(momentumData)]
        IN  \/ /\ s.team = homeTeam.name
               /\ latest.homeScore > latest.awayScore
               /\ s.count = latest.homeScore - latest.awayScore
            \/ /\ s.team = awayTeam.name
               /\ latest.awayScore > latest.homeScore
               /\ s.count = latest.awayScore - latest.homeScore


-----------------------------------------------------------------------------
(* The App component: game selection and the polling of the active game.   *)
(*                                                                         *)
(* A state change and the effect it triggers are one step: React runs the  *)
(* cleanup of the previous poll effect and then the new effect in the      *)
(* commit of the render in which activeGameId changed.  A request that is  *)
(* in flight is not cancelled by the cleanup (only the interval is), and   *)
(* responses settle in any order.                                          *)

\* game-data requests of one game that can be in flight together
MaxInFlight == 2

\* what the server answers for a game: scoreboard header and trace
GameData(g) ==
    IF g = "A"
    THEN [momentum |-> NarrativeTrace(8, Calm, MildLead, Quiet),
          home |-> Lakers(<<"4", "8">>), away |-> Celtics(<<"4", "1">>),
          period |-> 2, clock |-> FiveMinutes]
    ELSE [momentum |-> NarrativeTrace(5, MomentumShape(120, 0, 0), ScoreShape("lead", -3, 0),
                                      Quiet),
          home |-> TeamInfo("MIA", "Heat", <<"4", "5">>),
          away |-> TeamInfo("NYK", "Knicks", <<"4", "8">>),
          period |-> 4, clock |-> <<"2", ":", "5", "9">>]

AppFrame == UNCHANGED <<momentumDefined, selectedTimeWindow, dna, chart, narrative, serverVars>>

ScoreboardFrame == UNCHANGED <<momentumData, homeTeam, awayTeam, period, clock>>

RunPollEffect_NoCleanup(a, id) ==
    IF id = a.activeGameId THEN a
    ELSE [a EXCEPT !.activeGameId = id,
                   !.effectGame = id,
                   !.timers[id] = @ + 1,
                   !.inFlight[id] = @ + 1]

\* lines 66-153 after a commit with activeGameId = id: nothing when the
\* dependency did not change; otherwise the cleanup of the previous effect
\* (clearInterval, line 152), then fetchGameData() and setInterval (149-151)
RunPollEffect(a, id) ==
    IF id = a.activeGameId THEN a
    ELSE LET cleaned == IF a.effectGame = NoGame THEN a
                        ELSE [a EXCEPT !.timers[a.effectGame] = @ - 1]
         IN  [cleaned EXCEPT !.activeGameId = id,
                             !.effectGame = id,
                             !.timers[id] = @ + 1,
                             !.inFlight[id] = @ + 1]

InitApp ==
    /\ InitServerIdle
    /\ ClientIdle

\* lines 32-63: the game list arrives (a live game, a completed one, or the
\* fallback id; the fallback also when the request fails)
GameListSettles ==
    /\ app.listPending
    /\ \E id \in Games :
          /\ (id # app.activeGameId => app.inFlight[id] < MaxInFlight)
          /\ app' = RunPollEffect([app EXCEPT !.listPending = FALSE], id)
    /\ ScoreboardFrame
    /\ AppFrame

\* lines 187-193: the user picks a game in the library, which is on screen
\* unless the error panel is (lines 155-169)
SelectGame ==
    /\ ~app.error
    /\ \E id \in Games :
          /\ (id # app.activeGameId => app.inFlight[id] < MaxInFlight)
          /\ app' = RunPollEffect([app EXCEPT !.loading = TRUE], id)
    /\ ScoreboardFrame
    /\ AppFrame

\* line 151: an interval fires and fetchGameData sends its request
PollTick ==
    /\ \E g \in Games :
          /\ app.timers[g] > 0
          /\ app.inFlight[g] < MaxInFlight
          /\ app' = [app EXCEPT !.inFlight[g] = @ + 1]
    /\ ScoreboardFrame
    /\ AppFrame

\* lines 71-141: a response arrives and is applied
PollSucceeds ==
    /\ \E g \in Games :
          /\ app.inFlight[g] > 0
          /\ app' = [app EXCEPT !.inFlight[g] = @ - 1,
                                !.loading = FALSE,
                                !.shown = g,
                                !.applied = [game |-> g, flip |-> ~app.applied.flip]]
          /\ momentumData' = GameData(g).momentum
          /\ homeTeam' = GameData(g).home
          /\ awayTeam' = GameData(g).away
          /\ period' = GameData(g).period
          /\ clock' = GameData(g).clock
    /\ AppFrame

\* lines 142-146: the request fails
PollFails ==
    /\ \E g \in Games :
          /\ app.inFlight[g] > 0
          /\ app' = [app EXCEPT !.inFlight[g] = @ - 1, !.error = TRUE, !.loading = FALSE]
    /\ ScoreboardFrame
    /\ AppFrame

NextApp == GameListSettles \/ SelectGame \/ PollTick \/ PollSucceeds \/ PollFails

SpecApp == InitApp /\ [][NextApp]_vars

\* the interval keeps firing and, the server being reachable, polls succeed
\* again and again
SpecAppLive == SpecApp /\ WF_vars(PollTick) /\ SF_vars(PollSucceeds)

\* C27: a game-data response is applied to the displayed state only if it was
\* requested for the game that is active when it arrives.
C27_OnlyActiveGameApplied ==
    [][app'.applied # app.applied => app'.applied.game = app.activeGameId]_vars

\* C28: once the dashboard is in its error state, a later successful poll
\* clears the error, so the error state always ends.
C28_ErrorClears == app.error ~> ~app.error

ActiveTimers == {g \in Games : app.timers[g] > 0}

\* C30: at most one polling timer is active, it polls the active game, and no
\* timer exists before a game has been selected.
C30_OneTimerForActiveGame ==
    /\ \A g \in Games : app.timers[g] <= (IF g = app.activeGameId THEN 1 ELSE 0)
    /\ app.activeGameId = NoGame => ActiveTimers = {}
    /\ app.activeGameId # NoGame => ActiveTimers = {app.activeGameId}

\* game B was selected while game A was shown: the one timer polls B
C30_Witness ==
    /\ app.activeGameId = "B"
    /\ app.shown = "A"
    /\ app.timers = [g \in Games |-> IF g = "B" THEN 1 ELSE 0]


-----------------------------------------------------------------------------
(* The selected time window against the data it indexes *)

\* C29: the selected time window satisfies 0 <= start <= end <= length of the
\* momentum data - 1 whatever trace a poll or a game switch brings, so that a
\* fingerprint GameDNA builds from a selected window has a nonempty slice.
C29_WindowWithinData ==
    selectedTimeWindow.set =>
        /\ 0 <= selectedTimeWindow.start
        /\ selectedTimeWindow.start <= selectedTimeWindow.end
        /\ selectedTimeWindow.end <= Len(momentumData) - 1
        /\ dna.status \in {"threw", "requested", "settled"} => dna.input # <<>>

=============================================================================
